---------------------------- MODULE Spec2Model ----------------------------
(***************************************************************************)
(* Model of the idea-to-package generation pipeline of ideaforge:          *)
(* backend/app/services/ideation.py (generate_package and its helpers),    *)
(* feature_detection.py, stack_selection.py, tool_profiles.py, the         *)
(* provider singleton of providers/openai_provider.py and the procedural   *)
(* generators' use of the domain model.                                    *)
(*                                                                         *)
(* Texts are TLA+ strings (TLC evaluates Len, \o and SubSeq on them).      *)
(* Python values that may be of several types (JSON values, None) are      *)
(* records tagged by a field t, so that any two of them can be compared.   *)
(***************************************************************************)
EXTENDS Integers, Sequences, FiniteSets, TLC

(***************************************************************************)
(* Bounds of the model.                                                    *)
(***************************************************************************)
\* number of request slots (threads running generate_package)
NumReq == 2

(***************************************************************************)
(* Python values.                                                          *)
(***************************************************************************)
None == [t |-> "None"]
JStr(s) == [t |-> "str", s |-> s]
JList(items) == [t |-> "list", v |-> items]
JObj(fields) == [t |-> "dict", v |-> fields]
\* the empty dict {}: a function with no key
EmptyFields == [k \in {} |-> None]

IsDict(x) == x.t = "dict"
IsList(x) == x.t = "list"
IsStr(x) == x.t = "str"
\* key in d, for a dict d
HasKey(d, key) == key \in DOMAIN d.v
\* Python truthiness of None, a dict, a list or a str
Truthy(x) ==
    CASE x.t = "None" -> FALSE
      [] x.t = "dict" -> DOMAIN x.v # {}
      [] x.t = "list" -> Len(x.v) > 0
      [] x.t = "str" -> Len(x.s) > 0
      [] OTHER -> TRUE

(***************************************************************************)
(* str methods.                                                            *)
(***************************************************************************)
Whitespace == {" ", "\n", "\t"}

LowerChar(c) ==
    CASE c = "A" -> "a" [] c = "B" -> "b" [] c = "C" -> "c" [] c = "D" -> "d"
      [] c = "E" -> "e" [] c = "F" -> "f" [] c = "G" -> "g" [] c = "H" -> "h"
      [] c = "I" -> "i" [] c = "J" -> "j" [] c = "K" -> "k" [] c = "L" -> "l"
      [] c = "M" -> "m" [] c = "N" -> "n" [] c = "O" -> "o" [] c = "P" -> "p"
      [] c = "Q" -> "q" [] c = "R" -> "r" [] c = "S" -> "s" [] c = "T" -> "t"
      [] c = "U" -> "u" [] c = "V" -> "v" [] c = "W" -> "w" [] c = "X" -> "x"
      [] c = "Y" -> "y" [] c = "Z" -> "z" [] OTHER -> c

RECURSIVE Lower(_)
\* str.lower()
Lower(s) ==
    IF Len(s) = 0 THEN ""
    ELSE LowerChar(SubSeq(s, 1, 1)) \o Lower(SubSeq(s, 2, Len(s)))

RECURSIVE LStrip(_)
LStrip(s) ==
    IF Len(s) > 0 /\ SubSeq(s, 1, 1) \in Whitespace
    THEN LStrip(SubSeq(s, 2, Len(s)))
    ELSE s

RECURSIVE RStrip(_)
RStrip(s) ==
    IF Len(s) > 0 /\ SubSeq(s, Len(s), Len(s)) \in Whitespace
    THEN RStrip(SubSeq(s, 1, Len(s) - 1))
    ELSE s

\* str.strip()
Strip(s) == RStrip(LStrip(s))

\* kw in text
Contains(kw, text) ==
    \E i \in 1..(Len(text) - Len(kw) + 1) :
        SubSeq(text, i, i + Len(kw) - 1) = kw

(***************************************************************************)
(* feature_detection.py                                                    *)
(***************************************************************************)
FEATURE_KEYWORDS ==
    [ realtime |->
          { "realtime", "real-time", "chat", "live", "stream", "websocket",
            "live update", "collaborative", "multiplayer", "presence",
            "instant messaging", "socket" },
      payments |->
          { "marketplace", "payments", "billing", "subscription", "checkout",
            "stripe", "pricing", "plan", "tier", "invoice", "e-commerce",
            "shopping cart", "order", "purchase", "monetization", "paywall" },
      ai |->
          { "recommend", " ai ", "machine learning", " ml ", "llm", "assistant",
            "agent", "gpt", "claude", "embeddings", "vector", "rag", "chatbot",
            "generation", "prediction", "classification", "nlp", "sentiment",
            "ai-powered", "intelligent", "smart suggest" },
      mobile |->
          { "mobile", "ios", "android", "push notification", "responsive", "pwa",
            "react native", "flutter", "native app", "app store" },
      analytics |->
          { "analytics", "dashboard", "reporting", "metrics", "kpi",
            "visualization", "chart", "graph", "tracking", "insights",
            "data visualization" },
      file_upload |->
          { "upload", "file", "image", "video", "media", "attachment", "storage",
            "s3", "cdn", "gallery", "document", "photo", "avatar", "asset" },
      notifications |->
          { "notification", "email", "sms", "alert", "webhook",
            "in-app notification", "digest", "reminder", "push" },
      search |->
          { "search", "filter", "facet", "elasticsearch", "full-text",
            "autocomplete", "typeahead", "fuzzy", "explore", "discover" },
      social |->
          { "social", "profile", "follow", "feed", "comment", "like", "share",
            "community", "forum", "post", "thread", "reaction", "mention",
            "friend", "connection" },
      i18n |->
          { "i18n", "internationalization", "localization", "multi-language",
            "translation", "locale", "rtl", "multilingual" },
      multi_tenancy |->
          { "multi-tenant", "tenant", "organization", "workspace", "team", "saas",
            "white-label", "subdomain", "org" },
      scheduling |->
          { "schedule", "calendar", "booking", "appointment", "cron", "recurring",
            "reminder", "event", "availability", "time slot" },
      admin_panel |->
          { "admin", "backoffice", "cms", "content management", "moderation",
            "management panel", "back office", "internal tool" },
      auth_advanced |->
          { "sso", "oauth", "2fa", "mfa", "rbac", "role", "permission",
            "access control", "saml", "ldap", "single sign-on" },
      geolocation |->
          { "map", "location", "geo", "gps", "address", "routing", "nearby",
            "distance", "place", "coordinate" } ]

\* the fixed flag vocabulary: the keys of FEATURE_KEYWORDS
FlagVocabulary == DOMAIN FEATURE_KEYWORDS

detect_features(text) ==
    LET lower == " " \o Lower(text) \o " "
    IN  { flag \in FlagVocabulary :
            \E kw \in FEATURE_KEYWORDS[flag] : Contains(kw, lower) }

(***************************************************************************)
(* stack_selection.py                                                      *)
(***************************************************************************)
choose_stack(flags) ==
    [ frontend |->
        IF "mobile" \in flags
        THEN "Next.js 14 (App Router) + Tailwind CSS 3 (+ React Native for mobile)"
        ELSE "Next.js 14 (App Router) + Tailwind CSS 3",
      frontend_ui |-> "shadcn/ui + Radix primitives",
      backend |-> "FastAPI 0.115 + Uvicorn (Python 3.11+)",
      database |->
        "PostgreSQL 16 + SQLAlchemy 2.0 (async) + Alembic"
          \o (IF "ai" \in flags THEN " + pgvector" ELSE "")
          \o (IF "analytics" \in flags THEN " + TimescaleDB" ELSE ""),
      cache |->
        IF "realtime" \in flags \/ "scheduling" \in flags
        THEN "Redis 7 (pub/sub + caching)"
        ELSE IF Cardinality(flags) >= 3 THEN "Redis 7 (caching layer)"
        ELSE "None",
      infra |->
        IF "realtime" \in flags
        THEN "Docker + Render (persistent WebSocket support)"
        ELSE IF Cardinality(flags) >= 5 THEN "Docker + AWS ECS (scalable)"
        ELSE "Docker + Fly.io (simple deploy)",
      auth |->
        IF "auth_advanced" \in flags
        THEN "Auth.js (NextAuth) + custom RBAC middleware"
        ELSE IF "payments" \in flags \/ "multi_tenancy" \in flags
        THEN "Auth.js (NextAuth) with JWT sessions"
        ELSE "Clerk (managed auth)",
      ai |->
        IF "ai" \in flags
        THEN "OpenAI GPT-4.1 + Embeddings API + LangChain"
        ELSE "OpenAI GPT-4.1 (via openai SDK)",
      search |->
        IF "search" \in flags
        THEN IF "analytics" \in flags \/ Cardinality(flags) >= 6
             THEN "Elasticsearch 8 (advanced search + analytics)"
             ELSE "Meilisearch (lightweight full-text search)"
        ELSE "None",
      file_storage |->
        IF "file_upload" \in flags THEN "AWS S3 (via boto3) + CloudFront CDN"
        ELSE IF "social" \in flags THEN "Cloudflare R2 (avatars + media)"
        ELSE "None",
      email |->
        IF "notifications" \in flags \/ "payments" \in flags
        THEN "Resend (transactional email)"
        ELSE IF "auth_advanced" \in flags \/ "scheduling" \in flags
        THEN "Resend (transactional email)"
        ELSE "None",
      monitoring |->
        IF "analytics" \in flags \/ Cardinality(flags) >= 5
        THEN "Sentry (errors) + Prometheus + Grafana + structlog"
        ELSE "Sentry (errors) + Structured logging (structlog)",
      testing |->
        "pytest + httpx (backend) - Playwright (E2E) - Jest + React Testing Library (frontend)" ]

(***************************************************************************)
(* tool_profiles.py                                                        *)
(***************************************************************************)
_LOVABLE ==
    [ slug |-> "lovable", name |-> "Lovable",
      stack |->
        [ frontend |-> "React 18 + Vite 5 + Tailwind CSS 3",
          frontend_ui |-> "shadcn/ui + Radix primitives",
          backend |-> "Supabase Edge Functions (Deno/TypeScript)",
          database |-> "Supabase PostgreSQL (with Row-Level Security)",
          cache |-> "None",
          infra |-> "Lovable hosting (auto-deployed)",
          auth |-> "Supabase Auth (email/password + OAuth)",
          ai |-> "OpenAI GPT-4.1 (via Supabase Edge Function)",
          search |-> "None",
          file_storage |-> "Supabase Storage",
          email |-> "Supabase Edge Function + Resend",
          monitoring |-> "Sentry (frontend only)",
          testing |-> "Vitest + React Testing Library" ],
      prompt_style |-> "descriptive",
      has_own_deployment |-> TRUE, has_own_auth |-> TRUE ]

_REPLIT ==
    [ slug |-> "replit", name |-> "Replit Agent",
      stack |->
        [ frontend |-> "React 18 + Vite 5 + Tailwind CSS 3",
          frontend_ui |-> "shadcn/ui + Radix primitives",
          backend |-> "Node.js 20 + Express 4",
          database |-> "PostgreSQL 16 + Prisma ORM",
          cache |-> "None",
          infra |-> "Replit Deployments (auto-hosted)",
          auth |-> "Express sessions + bcrypt + JWT",
          ai |-> "OpenAI GPT-4.1 (via openai npm package)",
          search |-> "None",
          file_storage |-> "Replit Object Storage",
          email |-> "Resend (npm package)",
          monitoring |-> "Console logging + Sentry",
          testing |-> "Jest + Supertest (backend) - Vitest + RTL (frontend)" ],
      prompt_style |-> "conversational",
      has_own_deployment |-> TRUE, has_own_auth |-> FALSE ]

_BASE44 ==
    [ slug |-> "base44", name |-> "Base44",
      stack |->
        [ frontend |-> "Base44 auto-generated UI",
          frontend_ui |-> "Base44 built-in components",
          backend |-> "Base44 platform (managed)",
          database |-> "Base44 built-in database",
          cache |-> "None",
          infra |-> "Base44 hosting (managed)",
          auth |-> "Base44 built-in auth",
          ai |-> "Base44 AI (Claude Sonnet 4 / Gemini 2.5 Pro)",
          search |-> "Base44 built-in search",
          file_storage |-> "Base44 file storage",
          email |-> "Base44 integrations (SendGrid / Resend)",
          monitoring |-> "Base44 dashboard",
          testing |-> "Manual testing via Base44 preview" ],
      prompt_style |-> "entity_focused",
      has_own_deployment |-> TRUE, has_own_auth |-> TRUE ]

_CLAUDE_CODE ==
    [ slug |-> "claude_code", name |-> "Claude Code",
      stack |-> None,
      prompt_style |-> "detailed_code",
      has_own_deployment |-> FALSE, has_own_auth |-> FALSE ]

\* the module-level table as built at import time
TOOL_PROFILES_Initial ==
    [ lovable |-> _LOVABLE, replit |-> _REPLIT, base44 |-> _BASE44,
      claude_code |-> _CLAUDE_CODE ]

ToolSlugs == DOMAIN TOOL_PROFILES_Initial

(***************************************************************************)
(* A ToolProfile value held by a request is either a reference to one of   *)
(* the module-level objects of the table (an alias: reads and writes go to *)
(* the table) or a private object with its own fields.                     *)
(***************************************************************************)
SharedRef(slug) == [t |-> "ref", to |-> slug]
PrivateObj(fields) == [t |-> "obj", val |-> fields]

\* get_tool_profile(slug) on the table `table`; slug is None or a str
get_tool_profile(table, slug) ==
    IF ~Truthy(slug) THEN None
    ELSE IF slug.s \in DOMAIN table THEN SharedRef(slug.s)
    ELSE None

\* a faulty variant of line 220: no copy, the call keeps the shared object
copy_copy_Aliased(table, profile) == profile

\* copy.copy(profile): a new object with the same field values
copy_copy(table, profile) == PrivateObj(table[profile.to])

\* profile.<field> of a ToolProfile value
ProfileFields(table, profile) ==
    IF profile.t = "ref" THEN table[profile.to] ELSE profile.val

(***************************************************************************)
(* Text of an LLM response, as far as _extract_json looks at it: an        *)
(* optional JSON body, with explanatory text before and after it. The text *)
(* around the body is "" (none), "prose" (no brace in it) or "braces"      *)
(* (prose that holds a brace). A body is a JSON value, Truncated (a JSON   *)
(* text cut before its end) or NoBody.                                     *)
(***************************************************************************)
Truncated == [t |-> "truncated"]
NoBody == [t |-> "nobody"]
Text(pre, body, post) == [t |-> "text", pre |-> pre, body |-> body, post |-> post]
EmptyText == Text("", NoBody, "")

IsJsonValue(body) == body.t \in {"dict", "list", "str", "None"}

\* the result of a call that may raise
Returned(val) == [exc |-> FALSE, val |-> val]
Raised(type) == [exc |-> TRUE, type |-> type]

\* _extract_json(text): json.loads, then the outermost {...} of the text
_extract_json(text) ==
    IF text.pre = "" /\ text.post = "" /\ IsJsonValue(text.body)
    THEN Returned(text.body)
    ELSE IF text.body.t # "dict" /\ text.body.t # "truncated"
            /\ text.pre # "braces" /\ text.post # "braces"
    THEN Raised("ValueError")
    ELSE IF text.body.t = "dict" /\ text.pre # "braces" /\ text.post # "braces"
    THEN Returned(text.body)
    ELSE Raised("JSONDecodeError")

_REQUIRED_KEYS == {"implementation_plan", "tech_stack", "prompts", "docs"}

\* a faulty variant of the validation below: no key is required
_validate_payload_Lenient(payload) == Returned(payload)
\* _validate_payload(payload), for a dict payload
_validate_payload(payload) ==
    IF _REQUIRED_KEYS \subseteq DOMAIN payload.v
    THEN Returned(payload)
    ELSE Raised("ValueError")

(***************************************************************************)
(* _analyze_domain: `outcome` is what chat.completions.create does: it     *)
(* raises, or returns a message whose content is None or a text.           *)
(***************************************************************************)
CallRaises == [t |-> "raise"]
CallReturns(content) == [t |-> "content", content |-> content]

\* (content or "")
ContentOrEmpty(content) == IF content.t = "None" THEN EmptyText ELSE content

\* key in x, for a dict, a list or a str x (Python's `in`)
KeyIn(key, x) ==
    CASE x.t = "dict" -> key \in DOMAIN x.v
      [] x.t = "list" -> \E i \in 1..Len(x.v) : x.v[i] = JStr(key)
      [] x.t = "str" -> Contains(key, x.s)
      [] OTHER -> FALSE

\* a faulty variant of the validation below: one key is enough
DomainKeysPresent_Either(domain) ==
    KeyIn("entities", domain) \/ KeyIn("api_endpoints", domain)
\* the key validation of _analyze_domain, ideation.py line 149
DomainKeysPresent(domain) ==
    KeyIn("entities", domain) /\ KeyIn("api_endpoints", domain)

_analyze_domain(outcome) ==
    IF outcome.t = "raise" THEN None
    ELSE LET parsed == _extract_json(ContentOrEmpty(outcome.content))
         IN  IF parsed.exc THEN None
             ELSE IF DomainKeysPresent(parsed.val) THEN parsed.val
             ELSE None

\* a faulty variant of the test below: off by one
RefinedIsUsable_Inclusive(text) == Len(text) >= 30
\* the length test of _refine_idea, ideation.py line 183
RefinedIsUsable(text) == Len(text) > 30

\* _refine_idea(provider, raw_idea, ...): outcome.content is None or a str
_refine_idea(raw_idea, outcome) ==
    IF outcome.t = "raise" THEN raw_idea
    ELSE LET text == Strip(IF outcome.content.t = "None" THEN ""
                           ELSE outcome.content.s)
         IN  IF RefinedIsUsable(text) THEN text ELSE raw_idea

\* a faulty variant of the label below: five flags count as Complex
_estimate_complexity_Early(flags) ==
    LET count == Cardinality(flags)
    IN  IF count <= 2 THEN "MVP"
        ELSE IF count < 5 THEN "Medium"
        ELSE "Complex"

_estimate_complexity(flags) ==
    LET count == Cardinality(flags)
    IN  IF count <= 2 THEN "MVP"
        ELSE IF count <= 5 THEN "Medium"
        ELSE "Complex"

(***************************************************************************)
(* The procedural generators (prompt_templates.py, tool_prompts.py,        *)
(* implementation_plan.py, doc_templates.py). The literal text of a        *)
(* template is not modelled: a generated text is a record that keeps what  *)
(* it was generated from (the idea, the entity names it embeds) and its    *)
(* length, counted as the template's opening line plus the idea.           *)
(* What is modelled in full is which keys each pack has, how many steps a  *)
(* plan has, and when a generator raises on the domain it is given.        *)
(***************************************************************************)
\* for item in domain[key]: item[field] -- every item is a dict that has
\* `field`; anything else raises KeyError / TypeError
ItemsHave(domain, key, fields) ==
    /\ IsList(domain.v[key])
    /\ \A i \in 1..Len(domain.v[key].v) :
          /\ IsDict(domain.v[key].v[i])
          /\ \A f \in fields : HasKey(domain.v[key].v[i], f)

\* if not domain or key not in domain
Skips(domain, key) == ~Truthy(domain) \/ ~HasKey(domain, key)

\* ", ".join(e["name"] for e in domain["entities"]) also needs str names
NamesAreStr(domain, key) ==
    \A i \in 1..Len(domain.v[key].v) : IsStr(domain.v[key].v[i].v["name"])

\* _entity_names / _entity_names_short / _domain_entity_names /
\* _domain_entities_block: the entity names, or an exception
_entity_names(domain) ==
    IF Skips(domain, "entities") THEN Returned(<<>>)
    ELSE IF ItemsHave(domain, "entities", {"name"})
            /\ NamesAreStr(domain, "entities")
    THEN Returned([i \in 1..Len(domain.v["entities"].v) |->
                      domain.v["entities"].v[i].v["name"].s])
    ELSE Raised("KeyError")

\* _page_names / _domain_pages_block
_page_names(domain) ==
    IF Skips(domain, "pages") THEN Returned(<<>>)
    ELSE IF ItemsHave(domain, "pages", {"name"}) /\ NamesAreStr(domain, "pages")
    THEN Returned([i \in 1..Len(domain.v["pages"].v) |->
                      domain.v["pages"].v[i].v["name"].s])
    ELSE Raised("KeyError")

\* _domain_endpoints_block: ep['method'], ep['path'] of every endpoint
_domain_endpoints_block(domain) ==
    IF Skips(domain, "api_endpoints") THEN Returned(<<>>)
    ELSE IF ItemsHave(domain, "api_endpoints", {"method", "path"})
    THEN Returned(<<>>)
    ELSE Raised("KeyError")

\* _domain_workflows_block: enumerate(domain["workflows"], 1)
_domain_workflows_block(domain) ==
    IF Skips(domain, "workflows") THEN Returned(<<>>)
    ELSE IF domain.v["workflows"].t \in {"list", "str", "dict"}
    THEN Returned(<<>>)
    ELSE Raised("TypeError")

\* tool.slug of the profile handed to a generator, "" for tool = None
SlugOf(table, tool) ==
    IF tool.t = "None" THEN "" ELSE ProfileFields(table, tool).slug

\* opening line of the _product_requirements template
TemplateLead ==
    "You are a senior product manager with 12+ years of experience shipping SaaS products."

\* a text produced by a template
TemplateText(name, idea, names) ==
    [ t |-> "str", by |-> "template", name |-> name, idea |-> idea,
      entities |-> names, len |-> Len(TemplateLead) + Len(idea) ]

\* the keys of _build_default_prompts
DefaultPromptKeys(flags, mode) ==
    IF mode = "mvp"
    THEN {"master_prompt", "backend_code", "frontend_code", "database_schema"}
    ELSE {"master_prompt", "product_requirements", "backend_code",
          "frontend_code", "database_schema", "auth_setup",
          "api_documentation", "deployment_config", "testing_suite",
          "security_checklist"}
         \cup (IF "realtime" \in flags THEN {"realtime_implementation"} ELSE {})
         \cup (IF "payments" \in flags THEN {"payment_integration"} ELSE {})
         \cup (IF "ai" \in flags THEN {"ai_integration"} ELSE {})
         \cup (IF "mobile" \in flags THEN {"mobile_api"} ELSE {})
         \cup (IF "search" \in flags THEN {"search_implementation"} ELSE {})
         \cup (IF "file_upload" \in flags THEN {"file_upload_system"} ELSE {})

\* the keys of the pack build_prompt_pack returns
PromptKeys(flags, mode, slug) ==
    CASE slug = "lovable" -> {"master_prompt", "frontend_code", "database_schema"}
      [] slug = "replit" ->
           {"master_prompt", "backend_code", "frontend_code", "database_schema"}
      [] slug = "base44" -> {"master_prompt", "entity_design", "page_design"}
      [] OTHER -> DefaultPromptKeys(flags, mode)

\* build_prompt_pack: every pack renders the entity, page and workflow
\* blocks of the domain; every pack but base44's renders the endpoint block
build_prompt_pack(idea, flags, stack, mode, domain, slug) ==
    IF _entity_names(domain).exc THEN _entity_names(domain)
    ELSE IF slug # "base44" /\ _domain_endpoints_block(domain).exc
    THEN _domain_endpoints_block(domain)
    ELSE IF _page_names(domain).exc THEN _page_names(domain)
    ELSE IF _domain_workflows_block(domain).exc
    THEN _domain_workflows_block(domain)
    ELSE Returned([t |-> "dict",
                   v |-> [k \in PromptKeys(flags, mode, slug) |->
                            TemplateText(k, idea, _entity_names(domain).val)]])

\* number of flags of `among` that are set
CountOf(flags, among) == Cardinality(flags \cap among)

\* len() of the list build_implementation_plan returns
PlanSteps(flags, mode, slug) ==
    CASE slug = "lovable" ->
           IF mode = "mvp" THEN 7
           ELSE LET k == CountOf(flags, {"realtime", "payments", "ai", "file_upload"})
                IN  19 + (IF k = 0 THEN 1 ELSE k)
      [] slug = "replit" ->
           IF mode = "mvp" THEN 7
           ELSE LET k == CountOf(flags, {"realtime", "payments", "ai"})
                IN  21 + (IF k = 0 THEN 0 ELSE k + 1)
      [] slug = "base44" -> IF mode = "mvp" THEN 6 ELSE 17
      [] OTHER ->
           IF mode = "mvp" THEN 7
           ELSE LET k == Cardinality(flags)
                IN  30 + (IF k = 0 THEN 0 ELSE k + 1)
                       + (IF slug = "claude_code" THEN 1 ELSE 0)

\* build_implementation_plan: every branch calls _entity_names and
\* _page_names; the default production plan also lists the endpoints
build_implementation_plan(flags, stack, mode, domain, slug) ==
    IF _entity_names(domain).exc THEN _entity_names(domain)
    ELSE IF _page_names(domain).exc THEN _page_names(domain)
    ELSE IF slug \notin {"lovable", "replit", "base44"} /\ mode # "mvp"
            /\ _domain_endpoints_block(domain).exc
    THEN _domain_endpoints_block(domain)
    ELSE Returned([ t |-> "list", by |-> "template",
                    len |-> PlanSteps(flags, mode, slug),
                    stack |-> stack,
                    entities |-> _entity_names(domain).val,
                    pages |-> _page_names(domain).val ])

\* the keys of the dict build_doc_pack returns
DocKeys(mode, slug) ==
    CASE slug = "lovable" -> {"readme", "supabase_setup"}
      [] slug = "replit" ->
           IF mode = "mvp" THEN {"readme"} ELSE {"readme", "api_spec"}
      [] slug = "base44" -> {"readme", "entity_reference"}
      [] OTHER ->
           IF mode = "mvp" THEN {"readme", "env_setup"}
           ELSE {"readme", "api_spec", "data_model", "env_setup",
                 "deployment_guide"}

\* build_doc_pack: the default mvp docs do not read the domain; the other
\* branches read the entity names, and the api_spec doc the endpoints
build_doc_pack(idea, flags, stack, mode, domain, slug) ==
    LET default == slug \notin {"lovable", "replit", "base44"}
        names == IF default /\ mode = "mvp" THEN Returned(<<>>)
                 ELSE _entity_names(domain)
    IN  IF names.exc THEN names
        ELSE IF "api_spec" \in DocKeys(mode, slug)
                /\ _domain_endpoints_block(domain).exc
        THEN _domain_endpoints_block(domain)
        ELSE Returned([t |-> "dict",
                       v |-> [k \in DocKeys(mode, slug) |->
                                TemplateText(k, idea, names.val)]])

(***************************************************************************)
(* The merge of generate_package, ideation.py lines 258-301.               *)
(***************************************************************************)
\* whether len(x) is defined
HasLen(x) == x.t \in {"str", "list", "dict"}

\* len(x); a text or a list whose content is not modelled carries its length
LenOf(x) ==
    CASE "len" \in DOMAIN x -> x.len
      [] x.t = "str" -> Len(x.s)
      [] x.t = "list" -> Len(x.v)
      [] x.t = "dict" -> Cardinality(DOMAIN x.v)

\* d.get(key, default)
Get(d, key, default) == IF HasKey(d, key) THEN d.v[key] ELSE default

\* d[key] = value on a copy of d
SetKey(d, key, value) ==
    [t |-> "dict",
     v |-> [k \in DOMAIN d.v \cup {key} |-> IF k = key THEN value ELSE d.v[k]]]

\* the "" of llm_prompts.get(pr_key, "") and merged_prompts.get(pr_key, "")
EmptyStr == JStr("")

\* sorted(flags): the vocabulary in alphabetical order, restricted to flags
SortedVocabulary ==
    << "admin_panel", "ai", "analytics", "auth_advanced", "file_upload",
       "geolocation", "i18n", "mobile", "multi_tenancy", "notifications",
       "payments", "realtime", "scheduling", "search", "social" >>

\* a faulty variant of sorted(flags) below: descending order
Sorted_Descending(flags) ==
    LET Test(f) == f \in flags
        n == Len(SortedVocabulary)
    IN  SelectSeq([i \in 1..n |-> SortedVocabulary[n + 1 - i]], Test)

Sorted(flags) ==
    LET Test(f) == f \in flags IN SelectSeq(SortedVocabulary, Test)

\* a faulty variant of the threshold below: the mode is not looked at
MinPlanLen_Flat(mode) == 5

\* min_plan_len, line 275
MinPlanLen(mode) == IF mode = "mvp" THEN 5 ELSE 10

\* a faulty variant of the prompt rule below: a text of equal length wins
MergePrompts_OrEqual(procedural_prompts, payload) ==
    LET llm_prompts == Get(payload, "prompts", None)
        llm_pr == Get(llm_prompts, "product_requirements", EmptyStr)
        cur == Get(procedural_prompts, "product_requirements", EmptyStr)
    IN  IF ~IsDict(llm_prompts) THEN Returned(procedural_prompts)
        ELSE IF ~HasLen(llm_pr) THEN Raised("TypeError")
        ELSE IF LenOf(llm_pr) >= LenOf(cur)
        THEN Returned(SetKey(procedural_prompts, "product_requirements", llm_pr))
        ELSE Returned(procedural_prompts)

\* the prompt rule, lines 265-272; an exception of len() is passed on
MergePrompts(procedural_prompts, payload) ==
    LET llm_prompts == Get(payload, "prompts", None)
        llm_pr == Get(llm_prompts, "product_requirements", EmptyStr)
        cur == Get(procedural_prompts, "product_requirements", EmptyStr)
    IN  IF ~IsDict(llm_prompts) THEN Returned(procedural_prompts)
        ELSE IF ~HasLen(llm_pr) THEN Raised("TypeError")
        ELSE IF LenOf(llm_pr) > LenOf(cur)
        THEN Returned(SetKey(procedural_prompts, "product_requirements", llm_pr))
        ELSE Returned(procedural_prompts)

\* the plan rule, lines 275-277
MergePlan(procedural_plan, payload, mode) ==
    LET llm_plan == Get(payload, "implementation_plan", None)
    IN  IF IsList(llm_plan) /\ LenOf(llm_plan) >= MinPlanLen(mode)
        THEN llm_plan
        ELSE procedural_plan

\* the dict both return statements build
Package(refined, plan, stack, prompts, docs, flags) ==
    [ refined_idea |-> refined,
      implementation_plan |-> plan,
      tech_stack |-> stack,
      prompts |-> prompts,
      docs |-> docs,
      detected_features |-> Sorted(flags),
      estimated_complexity |-> _estimate_complexity(flags),
      prompt_count |-> LenOf(prompts) ]

\* a faulty variant of the except branch: the docs are left out
Fallback_NoDocs(refined, stack, flags, proc) ==
    Package(refined, proc.plan, stack, proc.prompts, JObj(EmptyFields), flags)
\* the except branch, lines 290-301
Fallback(refined, stack, flags, proc) ==
    Package(refined, proc.plan, stack, proc.prompts, proc.docs, flags)

\* a faulty variant of the try block below: when the prompt rule raises,
\* the plan rule is still applied
MergeOrFallback_PlanOnError(raw, refined, stack, flags, mode, proc) ==
    IF raw.exc THEN Fallback(refined, stack, flags, proc)
    ELSE LET parsed == _extract_json(raw.val)
         IN  IF parsed.exc THEN Fallback(refined, stack, flags, proc)
             ELSE IF ~IsDict(parsed.val) \/ _validate_payload(parsed.val).exc
             THEN Fallback(refined, stack, flags, proc)
             ELSE LET merged == MergePrompts(proc.prompts, parsed.val)
                  IN  Package(refined,
                              MergePlan(proc.plan, parsed.val, mode),
                              stack,
                              IF merged.exc THEN proc.prompts ELSE merged.val,
                              proc.docs, flags)

\* a faulty variant of the try block below: the prompts are counted before
\* the merge
MergeOrFallback_StaleCount(raw, refined, stack, flags, mode, proc) ==
    IF raw.exc THEN Fallback(refined, stack, flags, proc)
    ELSE LET parsed == _extract_json(raw.val)
         IN  IF parsed.exc THEN Fallback(refined, stack, flags, proc)
             ELSE IF ~IsDict(parsed.val) \/ _validate_payload(parsed.val).exc
             THEN Fallback(refined, stack, flags, proc)
             ELSE LET merged == MergePrompts(proc.prompts, parsed.val)
                  IN  IF merged.exc THEN Fallback(refined, stack, flags, proc)
                      ELSE [ Package(refined,
                                     MergePlan(proc.plan, parsed.val, mode),
                                     stack, merged.val, proc.docs, flags)
                             EXCEPT !.prompt_count = LenOf(proc.prompts) ]

\* a faulty variant of the try block below: the merged result takes the
\* docs and the stack of the payload
MergeOrFallback_LlmDocs(raw, refined, stack, flags, mode, proc) ==
    IF raw.exc THEN Fallback(refined, stack, flags, proc)
    ELSE LET parsed == _extract_json(raw.val)
         IN  IF parsed.exc THEN Fallback(refined, stack, flags, proc)
             ELSE IF ~IsDict(parsed.val) \/ _validate_payload(parsed.val).exc
             THEN Fallback(refined, stack, flags, proc)
             ELSE LET merged == MergePrompts(proc.prompts, parsed.val)
                  IN  IF merged.exc THEN Fallback(refined, stack, flags, proc)
                      ELSE Package(refined,
                                   MergePlan(proc.plan, parsed.val, mode),
                                   parsed.val.v["tech_stack"], merged.val,
                                   parsed.val.v["docs"], flags)

\* the try block, lines 258-288: `raw` is what llm_future.result(timeout=60)
\* did: Raised (the task raised, or the wait timed out) or Returned(text)
MergeOrFallback(raw, refined, stack, flags, mode, proc) ==
    IF raw.exc THEN Fallback(refined, stack, flags, proc)
    ELSE LET parsed == _extract_json(raw.val)
         IN  IF parsed.exc THEN Fallback(refined, stack, flags, proc)
             ELSE IF ~IsDict(parsed.val) \/ _validate_payload(parsed.val).exc
             THEN Fallback(refined, stack, flags, proc)
             ELSE LET merged == MergePrompts(proc.prompts, parsed.val)
                  IN  IF merged.exc THEN Fallback(refined, stack, flags, proc)
                      ELSE Package(refined,
                                   MergePlan(proc.plan, parsed.val, mode),
                                   stack, merged.val, proc.docs, flags)

(***************************************************************************)
(* Inputs.                                                                 *)
(***************************************************************************)
Reqs == 1..NumReq

Ideas ==
    { "todo apps",                  \* 9 characters
      " todo apps",                 \* 10 characters, 9 once stripped
      "notes tool",                 \* 10 characters, no flag
      "  notes tool \n",            \* 14 characters, 10 once stripped
      "notes with ai\n",            \* ai, once stripped
      "Real-Time chat for teams",   \* realtime, multi_tenancy
      "Team chat with search, file upload and email alerts",   \* five flags
      "Shop with Stripe checkout, search, file upload, admin dashboard and SSO" }

Modes == {"mvp", "production"}

\* req.tool: absent, the four profiles, an unknown identifier
Tools ==
    { None, JStr("lovable"), JStr("replit"), JStr("base44"),
      JStr("claude_code"), JStr("cursor") }

\* the requests of the detailed specification: two ideas under every mode
\* and tool, every idea under the defaults
RequestInputs ==
    { q \in [idea : Ideas, mode : Modes, tool : Tools] :
        \/ q.idea \in {"notes tool", "Real-Time chat for teams"}
        \/ (q.mode = "production" /\ q.tool = None) }

\* the requests of the concurrent specification
RequestInputsConc ==
    { q \in [idea : {"notes tool", "Real-Time chat for teams"},
             mode : {"production"},
             tool : {JStr("claude_code")}] : TRUE }

\* what the refine call does
RefineOutcomes ==
    { CallRaises,
      CallReturns(None),
      CallReturns(JStr("  A lean tool that keeps a note.\n")),   \* 30 once stripped
      CallReturns(JStr("A lean tool that keeps my notes")),      \* 31
      CallReturns(JStr("A booking calendar with email reminders for clinics")) }

RefineOutcomesConc == { CallRaises }

\* the one request of the repeated call, and what its refine call does
RequestInputsRepeat ==
    { [idea |-> "Real-Time chat for teams", mode |-> "production",
       tool |-> None] }

RefineOutcomesRepeat ==
    { CallRaises,
      CallReturns(JStr("A booking calendar with email reminders for clinics")) }

\* domain documents (parsed JSON objects)
EntityTask ==
    JObj([name |-> JStr("Task"), table_name |-> JStr("tasks"),
          fields |-> JList(<<JStr("title")>>)])
EndpointTasks == JObj([method |-> JStr("GET"), path |-> JStr("/api/tasks")])
PageBoard == JObj([name |-> JStr("Board"), path |-> JStr("/board")])

DomainFull ==
    JObj([app_name |-> JStr("tasker"),
          entities |-> JList(<<EntityTask>>),
          api_endpoints |-> JList(<<EndpointTasks>>),
          pages |-> JList(<<PageBoard>>),
          workflows |-> JList(<<JStr("User adds a task")>>)])
DomainKeysOnly ==
    JObj([entities |-> JList(<<>>), api_endpoints |-> JList(<<>>)])
DomainNoEndpoints ==
    JObj([app_name |-> JStr("tasker"), entities |-> JList(<<EntityTask>>),
          pages |-> JList(<<PageBoard>>)])
DomainNoEntities ==
    JObj([app_name |-> JStr("tasker"),
          api_endpoints |-> JList(<<EndpointTasks>>)])
DomainEntityNoName ==
    JObj([entities |-> JList(<<JObj([table_name |-> JStr("tasks")])>>),
          api_endpoints |-> JList(<<EndpointTasks>>)])
DomainEntitiesStr ==
    JObj([entities |-> JStr("Task, User"),
          api_endpoints |-> JList(<<EndpointTasks>>)])
DomainPageNoName ==
    JObj([entities |-> JList(<<EntityTask>>),
          api_endpoints |-> JList(<<EndpointTasks>>),
          pages |-> JList(<<JObj([path |-> JStr("/board")])>>)])
DomainEndpointNoPath ==
    JObj([entities |-> JList(<<EntityTask>>),
          api_endpoints |-> JList(<<JObj([method |-> JStr("GET")])>>)])

DomainDocs ==
    { DomainFull, DomainKeysOnly, DomainNoEndpoints, DomainNoEntities,
      DomainEntityNoName, DomainEntitiesStr, DomainPageNoName,
      DomainEndpointNoPath }

\* what the chat call of _analyze_domain does. It asks for
\* response_format json_object, so a body that parses is a JSON object.
DomainOutcomes ==
    { CallRaises, CallReturns(None), CallReturns(Text("", Truncated, "")),
      CallReturns(Text("prose", DomainFull, "prose")),
      CallReturns(Text("braces", DomainFull, "")) }
    \cup { CallReturns(Text("", d, "")) : d \in DomainDocs }

DomainOutcomesConc == { CallReturns(Text("", DomainFull, "")) }

\* a text / a plan written by the LLM, of which only the length is kept
LlmText(n) == [t |-> "str", by |-> "llm", len |-> n]
LlmPlan(n) == [t |-> "list", by |-> "llm", len |-> n]

Payload(prompts, plan) ==
    JObj([implementation_plan |-> plan, tech_stack |-> JObj(EmptyFields),
          prompts |-> prompts,
          docs |-> JObj([readme |-> LlmText(500)])])

\* product payloads for a request whose procedural product_requirements
\* text would have `n` characters
ProductDocs(n) ==
    { Payload(JObj([product_requirements |-> LlmText(n + 1)]), LlmPlan(10)),
      Payload(JObj([product_requirements |-> LlmText(n)]), LlmPlan(9)),
      Payload(JObj([product_requirements |-> LlmText(n - 1)]), LlmPlan(5)),
      Payload(JObj([product_requirements |-> LlmText(n - 1)]), LlmPlan(10)),
      Payload(JObj([product_requirements |-> LlmText(n + 1)]), LlmPlan(4)),
      Payload(JObj(EmptyFields), JStr("1. Build it")),
      Payload(JList(<<LlmText(n + 1)>>), LlmPlan(10)),
      Payload(JObj([product_requirements |-> None]), LlmPlan(10)),
      Payload(JObj([product_requirements |->
                      JObj([summary |-> LlmText(n + 1)])]), None),
      JObj([implementation_plan |-> LlmPlan(10),
            tech_stack |-> JObj(EmptyFields),
            prompts |-> JObj([product_requirements |-> LlmText(n + 1)])]) }

\* what provider.generate does
ProductOutcomes(n) ==
    { CallRaises, CallReturns(None), CallReturns(Text("", Truncated, "")) }
    \cup { CallReturns(Text("", d, "")) : d \in ProductDocs(n) }
    \cup { CallReturns(Text("prose", d, "")) :
             d \in { Payload(JObj([product_requirements |-> LlmText(n + 1)]),
                             LlmPlan(10)) } }

ProductOutcomesConc(n) ==
    { CallReturns(Text("", Payload(JObj([product_requirements |-> LlmText(n + 1)]),
                                   LlmPlan(10)), "")) }

\* settings.openai_api_key
ApiKeys == { None, JStr("sk-test") }

(***************************************************************************)
(* State.                                                                  *)
(***************************************************************************)
VARIABLES
    openai_api_key,     \* settings.openai_api_key (config.py)
    _shared_provider,   \* the provider singleton of openai_provider.py
    TOOL_PROFILES,      \* the module-level profile objects of tool_profiles.py
    pc,                 \* where each call of generate_package stands
    req,                \* its IdeaRequest
    idea,               \* req.idea.strip()
    mode,
    refined,
    flags,
    tool_profile,
    stack,
    domain_future,      \* the two futures of _executor
    llm_future,
    domain,
    procedural,         \* procedural_prompts, procedural_plan, procedural_docs
    raw,                \* what llm_future.result(timeout=60) did
    result,             \* what the call returned, or the exception it raised
    calls,              \* the collaborator calls the request made, in order
    replies,            \* what the LLM service did on each call of the request
    since_dispatch,     \* seconds since the call submitted its two tasks
    since_wait,         \* seconds the call has spent in its current wait
    plan_pc,            \* where each /plan request of the user stands
    usage_logs,         \* the requests that have a generation row this month
    tier_limit          \* monthly_generations of the tier of the user

vars ==
    << openai_api_key, _shared_provider, TOOL_PROFILES, pc, req, idea, mode,
       refined, flags, tool_profile, stack, domain_future, llm_future, domain,
       procedural, raw, result, calls, replies, since_dispatch, since_wait,
       plan_pc, usage_logs, tier_limit >>

shared == << openai_api_key, _shared_provider, TOOL_PROFILES >>
futures == << domain_future, llm_future >>
early == << req, idea, mode, refined, flags >>
late == << tool_profile, stack, domain, procedural, raw >>
clock == << since_dispatch, since_wait >>
quota == << plan_pc, usage_logs, tier_limit >>

\* _executor = ThreadPoolExecutor(max_workers=6)
max_workers == 6

\* domain_future.result(timeout=45), llm_future.result(timeout=60)
domain_timeout == 45
llm_timeout == 60

NoFuture == [state |-> "none"]
Pending(state, args) == [state |-> state, args |-> args]
Done(args, outcome) == [state |-> "done", args |-> args, outcome |-> outcome]

\* the workers of _executor that are running a task
Busy ==
    Cardinality({ r \in Reqs : domain_future[r].state = "running" })
      + Cardinality({ r \in Reqs : llm_future[r].state = "running" })

NoRequest == [idea |-> "", mode |-> "", tool |-> None]
NoResult == [t |-> "None"]
NoReplies == [refine |-> None, domain |-> None, product |-> None]

InitPipeline ==
    /\ openai_api_key \in ApiKeys
    /\ _shared_provider = None
    /\ TOOL_PROFILES = TOOL_PROFILES_Initial
    /\ pc = [r \in Reqs |-> "idle"]
    /\ req = [r \in Reqs |-> NoRequest]
    /\ idea = [r \in Reqs |-> ""]
    /\ mode = [r \in Reqs |-> ""]
    /\ refined = [r \in Reqs |-> ""]
    /\ flags = [r \in Reqs |-> {}]
    /\ tool_profile = [r \in Reqs |-> None]
    /\ stack = [r \in Reqs |-> None]
    /\ domain_future = [r \in Reqs |-> NoFuture]
    /\ llm_future = [r \in Reqs |-> NoFuture]
    /\ domain = [r \in Reqs |-> None]
    /\ procedural = [r \in Reqs |-> None]
    /\ result = [r \in Reqs |-> NoResult]
    /\ calls = [r \in Reqs |-> <<>>]
    /\ raw = [r \in Reqs |-> None]
    /\ replies = [r \in Reqs |-> NoReplies]
    /\ since_dispatch = [r \in Reqs |-> 0]
    /\ since_wait = [r \in Reqs |-> 0]

\* no /plan request has arrived and the month has no generation row
NoUsage ==
    /\ plan_pc = [r \in Reqs |-> "idle"]
    /\ usage_logs = {}

\* generate_package called on its own: no quota stands in its way
Init ==
    /\ InitPipeline
    /\ NoUsage
    /\ tier_limit = -1

(***************************************************************************)
(* generate_package, one action per step.                                  *)
(***************************************************************************)
\* a caller invokes generate_package(req); requests are numbered in the
\* order they arrive
Receive(r, inputs) ==
    /\ pc[r] = "idle"
    /\ \A q \in Reqs : q < r => pc[q] # "idle"
    /\ \E q \in inputs : req' = [req EXCEPT ![r] = q]
    /\ pc' = [pc EXCEPT ![r] = "validate"]
    /\ UNCHANGED << shared, futures, idea, mode, refined, flags, late, result,
                    calls, replies >>
    /\ UNCHANGED clock
    /\ UNCHANGED quota

\* a faulty variant of the test below: off by one
IdeaTooShort_Inclusive(text) == Len(text) <= 10
\* the minimum idea length, line 201
IdeaTooShort(text) == Len(text) < 10

\* lines 200-204
Validate(r) ==
    /\ pc[r] = "validate"
    /\ idea' = [idea EXCEPT ![r] = Strip(req[r].idea)]
    /\ IF IdeaTooShort(idea'[r])
       THEN /\ pc' = [pc EXCEPT ![r] = "rejected"]
            /\ result' = [result EXCEPT ![r] =
                            [t |-> "raise", type |-> "ValueError",
                             msg |-> "Idea is too short."]]
            /\ mode' = mode
       ELSE /\ pc' = [pc EXCEPT ![r] = "get_provider"]
            /\ mode' = [mode EXCEPT ![r] =
                          IF req[r].mode = "" THEN "production" ELSE req[r].mode]
            /\ result' = result
    /\ UNCHANGED << shared, futures, req, refined, flags, late, calls,
                    replies >>
    /\ UNCHANGED clock
    /\ UNCHANGED quota

\* OpenAIProvider.__init__, openai_provider.py lines 7-11
OpenAIProvider(api_key) ==
    IF ~Truthy(api_key) THEN Raised("ValueError")
    ELSE Returned([t |-> "OpenAIProvider"])

\* line 205: get_provider() is called outside any try
GetProvider(r) ==
    /\ pc[r] = "get_provider"
    /\ calls' = [calls EXCEPT ![r] = Append(@, "get_provider")]
    /\ LET made == IF _shared_provider = None
                   THEN OpenAIProvider(openai_api_key)
                   ELSE Returned(_shared_provider)
       IN  IF made.exc
           THEN /\ pc' = [pc EXCEPT ![r] = "raised"]
                /\ result' = [result EXCEPT ![r] =
                                [t |-> "raise", type |-> made.type,
                                 msg |-> "OPENAI_API_KEY is not set."]]
                /\ UNCHANGED _shared_provider
           ELSE /\ pc' = [pc EXCEPT ![r] = "refine"]
                /\ _shared_provider' = made.val
                /\ result' = result
    /\ UNCHANGED << openai_api_key, TOOL_PROFILES, futures, early, late,
                    replies >>
    /\ UNCHANGED clock
    /\ UNCHANGED quota

\* lines 208-212: the blocking refine call returns or raises
RefineIdea(r, outcomes) ==
    /\ pc[r] = "refine"
    /\ \E outcome \in outcomes :
          /\ refined' = [refined EXCEPT ![r] = _refine_idea(idea[r], outcome)]
          /\ replies' = [replies EXCEPT ![r].refine = outcome]
    /\ calls' = [calls EXCEPT ![r] = Append(@, "refine")]
    /\ pc' = [pc EXCEPT ![r] = "flags"]
    /\ UNCHANGED << shared, futures, req, idea, mode, flags, late, result >>
    /\ UNCHANGED clock
    /\ UNCHANGED quota

\* a faulty variant of line 215: the flags of the refined idea alone
DetectedFlags_RefinedOnly(raw_idea, refined_idea) ==
    detect_features(refined_idea)
\* line 215
DetectedFlags(raw_idea, refined_idea) ==
    detect_features(raw_idea) \cup detect_features(refined_idea)

DetectFlags(r) ==
    /\ pc[r] = "flags"
    /\ flags' = [flags EXCEPT ![r] = DetectedFlags(idea[r], refined[r])]
    /\ pc' = [pc EXCEPT ![r] = "tool_profile"]
    /\ UNCHANGED << shared, futures, req, idea, mode, refined, late, result,
                    calls, replies >>
    /\ UNCHANGED clock
    /\ UNCHANGED quota

\* lines 218-220
LoadToolProfile(r) ==
    /\ pc[r] = "tool_profile"
    /\ LET found == get_tool_profile(TOOL_PROFILES, req[r].tool)
       IN  tool_profile' = [tool_profile EXCEPT ![r] =
                              IF found.t # "None"
                              THEN copy_copy(TOOL_PROFILES, found)
                              ELSE found]
    /\ pc' = [pc EXCEPT ![r] = "stack"]
    /\ UNCHANGED << shared, futures, early, stack, domain, procedural, raw,
                    result, calls, replies >>
    /\ UNCHANGED clock
    /\ UNCHANGED quota

\* profile.stack = value: on a private object, or through an alias on the
\* module-level object
WithStack(profile, value) ==
    IF profile.t = "obj"
    THEN [profile EXCEPT !.val.stack = value]
    ELSE profile

\* a faulty variant of lines 222-225: the stack is chosen from the flags of
\* every call in progress
ResolvedStack_Leaky(fixed, flagset) ==
    IF fixed # None THEN fixed
    ELSE choose_stack(flagset \cup UNION { flags[q] : q \in DOMAIN flags })

\* a faulty variant of lines 222-225: the cache of the chosen stack does
\* not look at the realtime flag
ResolvedStack_NoRealtime(fixed, flagset) ==
    IF fixed # None THEN fixed
    ELSE [ choose_stack(flagset) EXCEPT
             !.cache = IF "scheduling" \in flagset THEN @
                       ELSE IF Cardinality(flagset) >= 3
                       THEN "Redis 7 (caching layer)"
                       ELSE "None" ]

\* a faulty variant of lines 222-225: the profile's stack is ignored
ResolvedStack_Ignored(fixed, flagset) == choose_stack(flagset)
\* lines 222-225: a fixed stack of the profile comes first
ResolvedStack(fixed, flagset) ==
    IF fixed # None THEN fixed ELSE choose_stack(flagset)

\* lines 222-227
ResolveStack(r) ==
    /\ pc[r] = "stack"
    /\ LET tp == tool_profile[r]
           fixed == IF tp.t = "None" THEN None
                    ELSE ProfileFields(TOOL_PROFILES, tp).stack
           chosen == ResolvedStack(fixed, flags[r])
       IN  /\ stack' = [stack EXCEPT ![r] = chosen]
           /\ IF tp.t # "None" /\ fixed = None
              THEN /\ tool_profile' = [tool_profile EXCEPT ![r] =
                                         WithStack(tp, chosen)]
                   /\ TOOL_PROFILES' =
                        IF tp.t = "ref"
                        THEN [TOOL_PROFILES EXCEPT ![tp.to].stack = chosen]
                        ELSE TOOL_PROFILES
              ELSE UNCHANGED << tool_profile, TOOL_PROFILES >>
    /\ pc' = [pc EXCEPT ![r] = "dispatch"]
    /\ UNCHANGED << openai_api_key, _shared_provider, futures, early, domain,
                    procedural, raw, result, calls, replies >>
    /\ UNCHANGED clock
    /\ UNCHANGED quota

\* build_user_prompt / _mvp_user_prompt (system_prompts.py): the user prompt
\* of the product call carries req.idea
build_user_prompt(request, flagset, stk, m) ==
    [idea |-> request.idea, flags |-> IF m = "mvp" THEN {} ELSE flagset]

\* lines 231-240: both tasks are submitted to _executor
Dispatch(r) ==
    /\ pc[r] = "dispatch"
    /\ domain_future' = [domain_future EXCEPT ![r] =
                           Pending("queued", [idea |-> refined[r]])]
    /\ llm_future' = [llm_future EXCEPT ![r] =
                        Pending("queued",
                                build_user_prompt(req[r], flags[r], stack[r],
                                                  mode[r]))]
    /\ calls' = [calls EXCEPT ![r] = @ \o <<"submit_domain", "submit_llm">>]
    /\ pc' = [pc EXCEPT ![r] = "wait_domain"]
    /\ UNCHANGED << shared, early, late, result, replies >>
    /\ UNCHANGED clock
    /\ UNCHANGED quota

\* a free worker of _executor takes the queued domain task
DomainTaskStart(r) ==
    /\ domain_future[r].state = "queued"
    /\ Busy < max_workers
    /\ domain_future' = [domain_future EXCEPT ![r].state = "running"]
    /\ UNCHANGED << shared, pc, early, late, llm_future, result,
                    calls, replies >>
    /\ UNCHANGED clock
    /\ UNCHANGED quota

\* _analyze_domain runs to its end in the worker; it returns, never raises.
\* Once the call that submitted it is over, nothing holds the future any
\* more and its value is dropped.
DomainTaskFinish(r, outcomes) ==
    /\ domain_future[r].state = "running"
    /\ \E outcome \in outcomes :
          IF pc[r] = "returned"
          THEN /\ domain_future' = [domain_future EXCEPT ![r] = NoFuture]
               /\ UNCHANGED replies
          ELSE /\ domain_future' = [domain_future EXCEPT ![r] =
                     Done(@.args, Returned(_analyze_domain(outcome)))]
               /\ replies' = [replies EXCEPT ![r].domain = outcome]
    /\ UNCHANGED << shared, pc, early, late, llm_future, result, calls >>
    /\ UNCHANGED clock
    /\ UNCHANGED quota

LlmTaskStart(r) ==
    /\ llm_future[r].state = "queued"
    /\ Busy < max_workers
    /\ llm_future' = [llm_future EXCEPT ![r].state = "running"]
    /\ UNCHANGED << shared, pc, early, late, domain_future, result,
                    calls, replies >>
    /\ UNCHANGED clock
    /\ UNCHANGED quota

\* provider.generate (openai_provider.py lines 13-30): the chat call raises,
\* or its content (or "") is returned
generate(outcome) ==
    IF outcome.t = "raise" THEN Raised("APIError")
    ELSE Returned(ContentOrEmpty(outcome.content))

\* len() of the procedural product_requirements text of request r
ProceduralLen(r) == Len(TemplateLead) + Len(refined[r])

LlmTaskFinish(r, outcomes) ==
    /\ llm_future[r].state = "running"
    /\ \E outcome \in outcomes :
          IF pc[r] = "returned"
          THEN /\ llm_future' = [llm_future EXCEPT ![r] = NoFuture]
               /\ UNCHANGED replies
          ELSE /\ llm_future' = [llm_future EXCEPT ![r] =
                     Done(@.args, generate(outcome))]
               /\ replies' = [replies EXCEPT ![r].product = outcome]
    /\ UNCHANGED << shared, pc, early, late, domain_future, result, calls >>
    /\ UNCHANGED clock
    /\ UNCHANGED quota

\* future.result(timeout=...): the task's outcome if it is done; a
\* TimeoutError may be raised as long as it is not
FutureResults(future) ==
    IF future.state = "done" THEN { future.outcome }
    ELSE { Raised("TimeoutError") }

\* a faulty variant of lines 243-247: a task whose wait timed out is
\* taken from the executor
WaitDomain_Cancelling(r) ==
    /\ pc[r] = "wait_domain"
    /\ \E got \in FutureResults(domain_future[r]) :
          /\ domain' = [domain EXCEPT ![r] = IF got.exc THEN None ELSE got.val]
          /\ calls' = [calls EXCEPT ![r] =
                         Append(@, IF got.exc THEN "domain_failed"
                                   ELSE "domain_resolved")]
          /\ domain_future' = [domain_future EXCEPT ![r] =
                                 IF got.exc THEN NoFuture ELSE @]
    /\ pc' = [pc EXCEPT ![r] = "procedural"]
    /\ UNCHANGED << shared, llm_future, early, tool_profile, stack, procedural,
                    raw, result, replies >>
    /\ UNCHANGED clock
    /\ UNCHANGED quota

\* a faulty variant of lines 243-247, without the try: the TimeoutError
\* leaves the call
WaitDomain_Unguarded(r) ==
    /\ pc[r] = "wait_domain"
    /\ \E got \in FutureResults(domain_future[r]) :
          IF got.exc
          THEN /\ pc' = [pc EXCEPT ![r] = "raised"]
               /\ result' = [result EXCEPT ![r] =
                               [t |-> "raise", type |-> got.type,
                                msg |-> "domain_future.result"]]
               /\ UNCHANGED << domain, calls >>
          ELSE /\ pc' = [pc EXCEPT ![r] = "procedural"]
               /\ domain' = [domain EXCEPT ![r] = got.val]
               /\ calls' = [calls EXCEPT ![r] = Append(@, "domain_resolved")]
               /\ UNCHANGED result
    /\ UNCHANGED << shared, futures, early, tool_profile, stack, procedural,
                    raw, replies >>
    /\ UNCHANGED clock
    /\ UNCHANGED quota

\* lines 243-247
WaitDomain(r) ==
    /\ pc[r] = "wait_domain"
    /\ \E got \in FutureResults(domain_future[r]) :
          /\ domain' = [domain EXCEPT ![r] = IF got.exc THEN None ELSE got.val]
          /\ calls' = [calls EXCEPT ![r] =
                         Append(@, IF got.exc THEN "domain_failed"
                                   ELSE "domain_resolved")]
    /\ pc' = [pc EXCEPT ![r] = "procedural"]
    /\ UNCHANGED << shared, futures, early, tool_profile, stack, procedural,
                    raw, result, replies >>
    /\ UNCHANGED clock
    /\ UNCHANGED quota

\* lines 250-255: the three generators, outside any try
BuildProcedural(r) ==
    /\ pc[r] = "procedural"
    /\ LET slug == SlugOf(TOOL_PROFILES, tool_profile[r])
           prompts == build_prompt_pack(refined[r], flags[r], stack[r],
                                        mode[r], domain[r], slug)
           plan == build_implementation_plan(flags[r], stack[r], mode[r],
                                             domain[r], slug)
           docs == build_doc_pack(refined[r], flags[r], stack[r], mode[r],
                                  domain[r], slug)
           failed == IF prompts.exc THEN prompts
                     ELSE IF plan.exc THEN plan ELSE docs
       IN  IF failed.exc
           THEN /\ pc' = [pc EXCEPT ![r] = "raised"]
                /\ result' = [result EXCEPT ![r] =
                                [t |-> "raise", type |-> failed.type,
                                 msg |-> "procedural generation"]]
                /\ UNCHANGED procedural
           ELSE /\ pc' = [pc EXCEPT ![r] = "wait_llm"]
                /\ procedural' = [procedural EXCEPT ![r] =
                                    [t |-> "built", prompts |-> prompts.val,
                                     plan |-> plan.val, docs |-> docs.val]]
                /\ UNCHANGED result
    /\ calls' = [calls EXCEPT ![r] = Append(@, "procedural")]
    /\ since_wait' = [since_wait EXCEPT ![r] = 0]
    /\ UNCHANGED << shared, futures, early, tool_profile, stack, domain, raw,
                    replies, since_dispatch >>
    /\ UNCHANGED quota

\* a faulty variant of lines 258-301: the fallback is returned at once,
\* whatever the product task is doing
WaitLlmAndMerge_NoWait(r) ==
    /\ pc[r] = "wait_llm"
    /\ result' = [result EXCEPT ![r] =
          [t |-> "return",
           val |-> Fallback(refined[r], stack[r], flags[r], procedural[r])]]
    /\ pc' = [pc EXCEPT ![r] = "done"]
    /\ UNCHANGED << shared, futures, early, tool_profile, stack, domain,
                    procedural, raw, calls, replies >>
    /\ UNCHANGED clock
    /\ UNCHANGED quota

\* lines 258-301
WaitLlmAndMerge(r) ==
    /\ pc[r] = "wait_llm"
    /\ \E got \in FutureResults(llm_future[r]) :
          /\ raw' = [raw EXCEPT ![r] = got]
          /\ result' = [result EXCEPT ![r] =
                [t |-> "return",
                 val |-> MergeOrFallback(got, refined[r], stack[r], flags[r],
                                         mode[r], procedural[r])]]
    /\ calls' = [calls EXCEPT ![r] = Append(@, "llm_resolved")]
    /\ pc' = [pc EXCEPT ![r] = "done"]
    /\ UNCHANGED << shared, futures, early, tool_profile, stack, domain,
                    procedural, replies >>
    /\ UNCHANGED clock
    /\ UNCHANGED quota

\* the call is over: its locals are discarded; a task that is not done
\* stays with the executor, where nothing reads its arguments any more
Forget(future) ==
    IF future.state \in {"none", "done"} THEN NoFuture
    ELSE Pending(future.state, [idea |-> ""])

Respond(r) ==
    /\ pc[r] \in {"done", "rejected", "raised"}
    /\ pc' = [pc EXCEPT ![r] = "returned"]
    /\ req' = [req EXCEPT ![r] = NoRequest]
    /\ idea' = [idea EXCEPT ![r] = ""]
    /\ mode' = [mode EXCEPT ![r] = ""]
    /\ refined' = [refined EXCEPT ![r] = ""]
    /\ flags' = [flags EXCEPT ![r] = {}]
    /\ tool_profile' = [tool_profile EXCEPT ![r] = None]
    /\ stack' = [stack EXCEPT ![r] = None]
    /\ domain' = [domain EXCEPT ![r] = None]
    /\ procedural' = [procedural EXCEPT ![r] = None]
    /\ result' = [result EXCEPT ![r] = NoResult]
    /\ calls' = [calls EXCEPT ![r] = <<>>]
    /\ raw' = [raw EXCEPT ![r] = None]
    /\ replies' = [replies EXCEPT ![r] = NoReplies]
    /\ domain_future' = [domain_future EXCEPT ![r] = Forget(@)]
    /\ llm_future' = [llm_future EXCEPT ![r] = Forget(@)]
    /\ since_dispatch' = [since_dispatch EXCEPT ![r] = 0]
    /\ since_wait' = [since_wait EXCEPT ![r] = 0]
    /\ UNCHANGED shared
    /\ UNCHANGED quota

\* no other call is in progress and the executor is idle
Quiet ==
    /\ \A q \in Reqs : pc[q] \in {"idle", "returned"}
    /\ \A q \in Reqs : /\ domain_future[q].state \in {"none", "done"}
                       /\ llm_future[q].state \in {"none", "done"}

\* the calls in progress
InProgress == { q \in Reqs : pc[q] \notin {"idle", "returned"} }

\* fewer than two calls are in progress
RoomForOne == \A p, q \in InProgress : p = q

(***************************************************************************)
(* Spec: the calls are made one after the other, with every input.         *)
(* SpecConc: the calls overlap, two at a time, in every interleaving of    *)
(* their steps and of the executor's tasks (those of calls that are over   *)
(* included), with fewer inputs.                                           *)
(***************************************************************************)
Next ==
    \E r \in Reqs :
        \/ Quiet /\ Receive(r, RequestInputs)
        \/ Validate(r)
        \/ GetProvider(r)
        \/ RefineIdea(r, RefineOutcomes)
        \/ DetectFlags(r)
        \/ LoadToolProfile(r)
        \/ ResolveStack(r)
        \/ Dispatch(r)
        \/ DomainTaskStart(r)
        \/ DomainTaskFinish(r, DomainOutcomes)
        \/ LlmTaskStart(r)
        \/ LlmTaskFinish(r, ProductOutcomes(ProceduralLen(r)))
        \/ WaitDomain(r)
        \/ BuildProcedural(r)
        \/ WaitLlmAndMerge(r)
        \/ Respond(r)

Spec == Init /\ [][Next]_vars

NextConc ==
    \E r \in Reqs :
        \/ RoomForOne /\ Receive(r, RequestInputsConc)
        \/ Validate(r)
        \/ GetProvider(r)
        \/ RefineIdea(r, RefineOutcomesConc)
        \/ DetectFlags(r)
        \/ LoadToolProfile(r)
        \/ ResolveStack(r)
        \/ Dispatch(r)
        \/ DomainTaskStart(r)
        \/ DomainTaskFinish(r, DomainOutcomesConc)
        \/ LlmTaskStart(r)
        \/ LlmTaskFinish(r, ProductOutcomesConc(ProceduralLen(r)))
        \/ WaitDomain(r)
        \/ BuildProcedural(r)
        \/ WaitLlmAndMerge(r)
        \/ Respond(r)

SpecConc == Init /\ [][NextConc]_vars

\* the same request, sent again while the first call may still run
NextRepeat ==
    \E r \in Reqs :
        \/ RoomForOne /\ Receive(r, RequestInputsRepeat)
        \/ Validate(r)
        \/ GetProvider(r)
        \/ RefineIdea(r, RefineOutcomesRepeat)
        \/ DetectFlags(r)
        \/ LoadToolProfile(r)
        \/ ResolveStack(r)
        \/ Dispatch(r)
        \/ DomainTaskStart(r)
        \/ DomainTaskFinish(r, DomainOutcomesConc)
        \/ LlmTaskStart(r)
        \/ LlmTaskFinish(r, ProductOutcomesConc(ProceduralLen(r)))
        \/ WaitDomain(r)
        \/ BuildProcedural(r)
        \/ WaitLlmAndMerge(r)
        \/ Respond(r)

SpecRepeat == Init /\ [][NextRepeat]_vars

(***************************************************************************)
(* Time.  In Spec, SpecConc and SpecRepeat a wait may time out whenever    *)
(* its task is not done, and no time is counted.  SpecTimed counts the     *)
(* seconds: a call that waits for a task that is not done lets a second    *)
(* pass as long as the timeout of the wait has not run out, and the wait   *)
(* raises TimeoutError exactly when it has.  A task takes any time: it may *)
(* wait for a worker, and the timeout of the OpenAI client                 *)
(* (openai_provider.py line 10) is per attempt, not per task.  Submitting, *)
(* the generators and the merge take no time.                              *)
(***************************************************************************)
Tick(r) ==
    /\ \/ /\ pc[r] = "wait_domain"
          /\ domain_future[r].state # "done"
          /\ since_wait[r] < domain_timeout
       \/ /\ pc[r] = "wait_llm"
          /\ llm_future[r].state # "done"
          /\ since_wait[r] < llm_timeout
    /\ since_dispatch' = [since_dispatch EXCEPT ![r] = @ + 1]
    /\ since_wait' = [since_wait EXCEPT ![r] = @ + 1]
    /\ UNCHANGED << shared, pc, futures, early, late, result, calls, replies >>
    /\ UNCHANGED quota

\* domain_future.result(timeout=45) returns when the task is done or the
\* 45 seconds are over
TimedWaitDomain(r) ==
    /\ domain_future[r].state = "done" \/ since_wait[r] = domain_timeout
    /\ WaitDomain(r)

\* llm_future.result(timeout=60) returns when the task is done or the
\* 60 seconds are over
TimedWaitLlmAndMerge(r) ==
    /\ llm_future[r].state = "done" \/ since_wait[r] = llm_timeout
    /\ WaitLlmAndMerge(r)

NextTimed ==
    \E r \in Reqs :
        \/ Quiet /\ Receive(r, RequestInputsRepeat)
        \/ Validate(r)
        \/ GetProvider(r)
        \/ RefineIdea(r, RefineOutcomesConc)
        \/ DetectFlags(r)
        \/ LoadToolProfile(r)
        \/ ResolveStack(r)
        \/ Dispatch(r)
        \/ DomainTaskStart(r)
        \/ DomainTaskFinish(r, DomainOutcomesConc)
        \/ LlmTaskStart(r)
        \/ LlmTaskFinish(r, ProductOutcomesConc(ProceduralLen(r)))
        \/ Tick(r)
        \/ TimedWaitDomain(r)
        \/ BuildProcedural(r)
        \/ TimedWaitLlmAndMerge(r)
        \/ Respond(r)

SpecTimed == Init /\ [][NextTimed]_vars

(***************************************************************************)
(* Properties.                                                             *)
(***************************************************************************)
\* where a call stands
Running ==
    {"get_provider", "refine", "flags", "tool_profile", "stack", "dispatch",
     "wait_domain", "procedural", "wait_llm", "done"}
PastValidation == Running \cup {"raised"}
\* the refine call of request r has been made
Refined(r) == replies[r].refine # None
\* line 215 / lines 217-227 / lines 243-247 are behind request r
FlagsDetected(r) ==
    \/ pc[r] \in {"tool_profile", "stack", "dispatch", "wait_domain",
                  "procedural", "wait_llm", "done"}
    \/ pc[r] = "raised" /\ Refined(r)
StackResolved(r) ==
    \/ pc[r] \in {"dispatch", "wait_domain", "procedural", "wait_llm", "done"}
    \/ pc[r] = "raised" /\ Refined(r)
DomainWaited(r) ==
    \/ pc[r] \in {"procedural", "wait_llm", "done"}
    \/ pc[r] = "raised" /\ Refined(r)
Built(r) == pc[r] \in {"wait_llm", "done"}
Logged(r, what) == \E i \in 1..Len(calls[r]) : calls[r][i] = what

\* the three generators on the locals of request r, with domain d
Prompts(r, d) ==
    build_prompt_pack(refined[r], flags[r], stack[r], mode[r], d,
                      SlugOf(TOOL_PROFILES, tool_profile[r]))
Plan(r, d) ==
    build_implementation_plan(flags[r], stack[r], mode[r], d,
                              SlugOf(TOOL_PROFILES, tool_profile[r]))
Docs(r, d) ==
    build_doc_pack(refined[r], flags[r], stack[r], mode[r], d,
                   SlugOf(TOOL_PROFILES, tool_profile[r]))

(***************************************************************************)
(* C1: every call that passes validation returns a result; the only        *)
(* exception a caller can see is the validation failure.                   *)
(* The code does not do this: get_provider() (line 205) and the three      *)
(* generators (lines 250-255) are outside every try.                       *)
(***************************************************************************)
C1_OnlyValidationRaises ==
    \A r \in Reqs : result[r].t = "raise" => pc[r] = "rejected"

(***************************************************************************)
(* C2 as stated: a call is rejected exactly when the idea text of the      *)
(* request has fewer than 10 characters.                                   *)
(***************************************************************************)
C2_RejectsByRequestLength ==
    \A r \in Reqs :
        /\ pc[r] = "rejected" => Len(req[r].idea) < 10
        /\ pc[r] \in PastValidation => Len(req[r].idea) >= 10

(***************************************************************************)
(* C2, amended: a call is rejected, with the ValueError "Idea is too       *)
(* short.", exactly when the idea text stripped of leading and trailing    *)
(* whitespace has fewer than 10 characters; a rejected call has obtained   *)
(* no provider, made no LLM call and submitted no task.                    *)
(***************************************************************************)
C2_RejectsByStrippedLength ==
    \A r \in Reqs :
        /\ pc[r] = "rejected" =>
              /\ Len(Strip(req[r].idea)) < 10
              /\ result[r] = [t |-> "raise", type |-> "ValueError",
                              msg |-> "Idea is too short."]
              /\ calls[r] = <<>>
              /\ replies[r] = NoReplies
              /\ domain_future[r] = NoFuture /\ llm_future[r] = NoFuture
        /\ pc[r] \in PastValidation => Len(Strip(req[r].idea)) >= 10

\* a request whose text has 10 characters, 9 without the leading blank, is
\* rejected
C2_Witness ==
    \E r \in Reqs :
        pc[r] = "rejected" /\ Len(req[r].idea) = 10
          /\ Len(Strip(req[r].idea)) = 9

(***************************************************************************)
(* C3: when the refine call, the domain call and the product call all      *)
(* raise, the call returns; refined_idea is the idea, and the plan, the    *)
(* prompts and the docs are non-empty and are what the three generators    *)
(* return for domain = None.                                               *)
(***************************************************************************)
AllThreeRaise(r) ==
    /\ replies[r].refine = CallRaises
    /\ replies[r].domain = CallRaises
    /\ replies[r].product = CallRaises

C3_AllRaiseStillReturns ==
    \A r \in Reqs :
        AllThreeRaise(r) =>
            /\ pc[r] # "raised"
            /\ pc[r] = "done" =>
                  /\ result[r].t = "return"
                  /\ result[r].val.refined_idea = idea[r]
                  /\ ~Prompts(r, None).exc /\ ~Plan(r, None).exc
                  /\ ~Docs(r, None).exc
                  /\ result[r].val.prompts = Prompts(r, None).val
                  /\ result[r].val.implementation_plan = Plan(r, None).val
                  /\ result[r].val.docs = Docs(r, None).val
                  /\ LenOf(result[r].val.prompts) > 0
                  /\ LenOf(result[r].val.implementation_plan) > 0
                  /\ LenOf(result[r].val.docs) > 0
                  /\ result[r].val.prompt_count > 0

C3_Witness ==
    \E r \in Reqs :
        /\ pc[r] = "done" /\ AllThreeRaise(r)
        /\ raw[r] = Raised("APIError")
        /\ Logged(r, "domain_resolved")

(***************************************************************************)
(* C4: a branch that times out or raises only loses its own result.        *)
(* No TimeoutError and no error of the LLM call leaves the call.  When     *)
(* the domain branch fails, the generators run with domain = None and a    *)
(* valid product payload is still merged by the two rules; when the        *)
(* product branch fails, the result is what the generators made of the     *)
(* accepted domain.  (What the generators do with an accepted domain that  *)
(* is malformed is the matter of C10.)                                     *)
(***************************************************************************)
DomainBranchFailed(r) ==
    /\ DomainWaited(r)
    /\ \/ Logged(r, "domain_failed")
       \/ replies[r].domain = CallRaises

\* the payload of a product branch that succeeded
ProductPayload(r) ==
    IF raw[r] = None \/ raw[r].exc THEN None
    ELSE IF _extract_json(raw[r].val).exc THEN None
    ELSE _extract_json(raw[r].val).val

ProductBranchSucceeded(r) ==
    /\ ProductPayload(r) # None
    /\ IsDict(ProductPayload(r))
    /\ {"implementation_plan", "tech_stack", "prompts", "docs"}
         \subseteq DOMAIN ProductPayload(r).v
    /\ ~MergePrompts(procedural[r].prompts, ProductPayload(r)).exc

C4_BranchFailureIsLocal ==
    \A r \in Reqs :
        /\ result[r].t = "raise" =>
              result[r].type \notin {"TimeoutError", "APIError"}
        /\ DomainBranchFailed(r) => domain[r] = None /\ pc[r] # "raised"
        /\ pc[r] = "done" /\ DomainBranchFailed(r)
             /\ ProductBranchSucceeded(r) =>
              LET llm_plan == ProductPayload(r).v["implementation_plan"]
                  enough == IF mode[r] = "mvp" THEN 5 ELSE 10
              IN  /\ result[r].val.prompts =
                        MergePrompts(Prompts(r, None).val,
                                     ProductPayload(r)).val
                  /\ result[r].val.implementation_plan =
                        IF IsList(llm_plan) /\ LenOf(llm_plan) >= enough
                        THEN llm_plan ELSE Plan(r, None).val
                  /\ result[r].val.docs = Docs(r, None).val
        /\ pc[r] = "done" /\ raw[r].exc /\ domain[r] # None =>
              /\ result[r].val.prompts = Prompts(r, domain[r]).val
              /\ result[r].val.implementation_plan = Plan(r, domain[r]).val
              /\ result[r].val.docs = Docs(r, domain[r]).val
              /\ result[r].val.implementation_plan.entities
                   = _entity_names(domain[r]).val

\* the domain wait timed out and the plan of the product payload was taken
C4_Witness ==
    \E r \in Reqs :
        /\ pc[r] = "done" /\ Logged(r, "domain_failed")
        /\ ProductBranchSucceeded(r)
        /\ result[r].val.implementation_plan.by = "llm"
        /\ result[r].val.prompts # procedural[r].prompts

(***************************************************************************)
(* C5 as stated: when the refine call fails or returns a text below the    *)
(* usable length, the refined idea is the idea text of the request,        *)
(* verbatim; otherwise it is the text the call returned.                   *)
(***************************************************************************)
RefineReturnedText(r) ==
    /\ replies[r].refine # CallRaises
    /\ replies[r].refine.content # None

C5_FallsBackToRequestText ==
    \A r \in Reqs :
        Refined(r) =>
            refined[r] =
                IF RefineReturnedText(r)
                     /\ Len(replies[r].refine.content.s) > 30
                THEN replies[r].refine.content.s
                ELSE req[r].idea

(***************************************************************************)
(* C5, amended: when the refine call raises, returns no content or         *)
(* returns a text of at most 30 characters once stripped of leading and    *)
(* trailing whitespace, the refined idea is the idea text of the request   *)
(* stripped of leading and trailing whitespace; otherwise it is the        *)
(* returned text, stripped.  That value is the one the domain task gets,   *)
(* the one the generators get and the refined_idea of the result.          *)
(***************************************************************************)
C5_RefinedIdea ==
    LET expected(r) ==
            IF RefineReturnedText(r)
                 /\ Len(Strip(replies[r].refine.content.s)) > 30
            THEN Strip(replies[r].refine.content.s)
            ELSE Strip(req[r].idea)
    IN  \A r \in Reqs :
            Refined(r) =>
                /\ refined[r] = expected(r)
                /\ domain_future[r].state # "none" =>
                      domain_future[r].args.idea = expected(r)
                /\ Built(r) =>
                      \A k \in DOMAIN procedural[r].prompts.v :
                          procedural[r].prompts.v[k].idea = expected(r)
                /\ pc[r] = "done" =>
                      result[r].val.refined_idea = expected(r)

\* the refine call returned 33 characters, 30 once stripped, for a request
\* whose text has surrounding whitespace
C5_Witness ==
    \E r \in Reqs :
        /\ pc[r] = "done"
        /\ RefineReturnedText(r)
        /\ Len(replies[r].refine.content.s) > 30
        /\ req[r].idea # Strip(req[r].idea)
        /\ result[r].val.refined_idea = Strip(req[r].idea)

(***************************************************************************)
(* C6 as stated: the flag set is exactly detect_features of the idea text  *)
(* of the request, united with detect_features of the refined idea.        *)
(***************************************************************************)
\* detect_features on every text of the model, computed once
KnownTexts ==
    Ideas \cup { Strip(i) : i \in Ideas }
          \cup { Strip(o.content.s) :
                   o \in { x \in RefineOutcomes :
                             x # CallRaises /\ x.content # None } }
FlagsOfText == [text \in KnownTexts |-> detect_features(text)]

C6_FlagsOfRequestText ==
    \A r \in Reqs :
        FlagsDetected(r) =>
            flags[r] = FlagsOfText[req[r].idea] \cup FlagsOfText[refined[r]]

(***************************************************************************)
(* C6, amended: the flag set is exactly detect_features of the idea text   *)
(* stripped of leading and trailing whitespace, united with                *)
(* detect_features of the refined idea.  It holds every flag detected in   *)
(* the idea text of the request, whatever the refine call returned; it is  *)
(* the set the stack is chosen from, the set the generators get and the    *)
(* detected_features of the result.                                        *)
(***************************************************************************)
C6_FlagsOfStrippedText ==
    \A r \in Reqs :
        FlagsDetected(r) =>
            /\ flags[r] = FlagsOfText[Strip(req[r].idea)]
                            \cup FlagsOfText[refined[r]]
            /\ FlagsOfText[req[r].idea] \subseteq flags[r]
            /\ StackResolved(r) /\ tool_profile[r] = None =>
                  stack[r] = choose_stack(flags[r])
            /\ Built(r) =>
                  DOMAIN procedural[r].prompts.v
                    = PromptKeys(flags[r], mode[r],
                                 SlugOf(TOOL_PROFILES, tool_profile[r]))
            /\ pc[r] = "done" =>
                  result[r].val.detected_features = Sorted(flags[r])

\* the text ends with a newline that hides the keyword " ai " until the
\* text is stripped, and the refined idea has no flag
C6_Witness ==
    \E r \in Reqs :
        /\ pc[r] = "done"
        /\ FlagsOfText[req[r].idea] \cup FlagsOfText[refined[r]] = {}
        /\ result[r].val.detected_features = <<"ai">>

(***************************************************************************)
(* C7: the stack of a request whose tool has a fixed stack (lovable,       *)
(* replit, base44) is that stack, whatever the flags; with no tool or an   *)
(* unknown one there is no profile and the stack is choose_stack(flags);   *)
(* with claude_code the stack is choose_stack(flags) and it is set on the  *)
(* request's own copy of the profile.                                      *)
(***************************************************************************)
C7_StackResolution ==
    \A r \in Reqs :
        StackResolved(r) =>
            LET tool == req[r].tool
            IN  /\ tool = JStr("lovable") => stack[r] = _LOVABLE.stack
                /\ tool = JStr("replit") => stack[r] = _REPLIT.stack
                /\ tool = JStr("base44") => stack[r] = _BASE44.stack
                /\ tool \in {JStr("lovable"), JStr("replit"), JStr("base44")}
                     => /\ tool_profile[r].t = "obj"
                        /\ tool_profile[r].val = TOOL_PROFILES_Initial[tool.s]
                /\ tool \in {None, JStr("cursor")} =>
                      /\ tool_profile[r] = None
                      /\ stack[r] = choose_stack(flags[r])
                /\ tool = JStr("claude_code") =>
                      /\ stack[r] = choose_stack(flags[r])
                      /\ tool_profile[r] =
                           PrivateObj([_CLAUDE_CODE EXCEPT !.stack = stack[r]])

\* a request with flags for which choose_stack would pick another stack
\* than the fixed one of its tool
C7_Witness ==
    \E r \in Reqs :
        /\ pc[r] = "done"
        /\ req[r].tool = JStr("lovable")
        /\ flags[r] # {}
        /\ choose_stack(flags[r]) # stack[r]
        /\ result[r].val.tech_stack = _LOVABLE.stack

(***************************************************************************)
(* C8: in every interleaving of concurrent calls the module-level table    *)
(* TOOL_PROFILES keeps its import-time value, so the stack of the shared   *)
(* claude_code profile stays None; the profile a call holds is its own     *)
(* object, its stack is the one chosen from the call's own flags, and      *)
(* that is the stack the generators of the call get.                       *)
(***************************************************************************)
C8_SharedProfilesUntouched ==
    /\ TOOL_PROFILES = TOOL_PROFILES_Initial
    /\ TOOL_PROFILES["claude_code"].stack = None
    /\ \A r \in Reqs :
          StackResolved(r) /\ tool_profile[r] # None =>
              /\ tool_profile[r].t = "obj"
              /\ req[r].tool = JStr("claude_code") =>
                    /\ stack[r] = choose_stack(flags[r])
                    /\ ProfileFields(TOOL_PROFILES, tool_profile[r]).stack
                         = choose_stack(flags[r])
              /\ Built(r) =>
                    procedural[r].plan.stack
                      = ProfileFields(TOOL_PROFILES, tool_profile[r]).stack

\* two calls in progress at once with the claude_code tool, each past its
\* generators, with different stacks
C8_Witness ==
    \E r, q \in Reqs :
        /\ r # q
        /\ Built(r) /\ Built(q)
        /\ req[r].tool = JStr("claude_code")
        /\ req[q].tool = JStr("claude_code")
        /\ procedural[r].plan.stack # procedural[q].plan.stack

(***************************************************************************)
(* C9: the domain the generators get is None or a JSON object that has     *)
(* the key "entities" and the key "api_endpoints".  A response that does   *)
(* not parse, or that parses to an object without one of the two keys,     *)
(* gives domain = None, and then no generated prompt carries an entity     *)
(* name.                                                                   *)
(***************************************************************************)
\* the response cannot be parsed, or has not both keys
Discardable(reply) ==
    \/ reply = CallRaises
    \/ reply.content = None
    \/ reply.content.body.t # "dict"
    \/ reply.content.pre = "braces" \/ reply.content.post = "braces"
    \/ "entities" \notin DOMAIN reply.content.body.v
    \/ "api_endpoints" \notin DOMAIN reply.content.body.v

C9_DomainIsNoneOrHasBothKeys ==
    \A r \in Reqs :
        /\ domain[r] # None =>
              /\ IsDict(domain[r])
              /\ {"entities", "api_endpoints"} \subseteq DOMAIN domain[r].v
        /\ replies[r].domain # None /\ Discardable(replies[r].domain) =>
              /\ domain[r] = None
              /\ domain_future[r].state = "done" =>
                    domain_future[r].outcome = Returned(None)
        /\ Built(r) /\ domain[r] = None =>
              \A k \in DOMAIN procedural[r].prompts.v :
                  procedural[r].prompts.v[k].entities = <<>>

\* the response has entities and pages but no api_endpoints, and the
\* prompts have been generated
C9_Witness ==
    \E r \in Reqs :
        /\ Built(r)
        /\ replies[r].domain = CallReturns(Text("", DomainNoEndpoints, ""))
        /\ Logged(r, "domain_resolved")
        /\ domain[r] = None

(***************************************************************************)
(* C10: a domain that reaches the generators is schema-valid: every        *)
(* entity has a name, every endpoint a method and a path, every page a     *)
(* name, and the workflows are a list.                                     *)
(* The code does not do this: line 149 tests the presence of the two keys  *)
(* and nothing else.                                                       *)
(***************************************************************************)
\* the items under `key` are objects that have `fields`
ListOfObjectsWith(d, key, fields) ==
    /\ IsList(d.v[key])
    /\ \A i \in 1..Len(d.v[key].v) :
          /\ IsDict(d.v[key].v[i])
          /\ fields \subseteq DOMAIN d.v[key].v[i].v

SchemaValid(d) ==
    /\ IsDict(d)
    /\ HasKey(d, "entities") /\ ListOfObjectsWith(d, "entities", {"name"})
    /\ HasKey(d, "api_endpoints")
    /\ ListOfObjectsWith(d, "api_endpoints", {"method", "path"})
    /\ HasKey(d, "pages") => ListOfObjectsWith(d, "pages", {"name"})
    /\ HasKey(d, "workflows") => IsList(d.v["workflows"])

C10_DomainIsSchemaValid ==
    \A r \in Reqs : domain[r] # None => SchemaValid(domain[r])

(***************************************************************************)
(* C11: in every call that passed validation the three generators each     *)
(* run once, after the domain wait and before the product wait, on the     *)
(* refined idea, the flags, the stack, the domain and the tool profile of  *)
(* the call.                                                               *)
(* The code does this on the paths that return; a call that passed         *)
(* validation can end at line 205 before any generator runs, or inside     *)
(* the first generator that raises on an accepted domain.                  *)
(***************************************************************************)
\* the positions of `what` in the calls of request r
Positions(r, what) == { i \in 1..Len(calls[r]) : calls[r][i] = what }

C11_GeneratorsRunOnce ==
    \A r \in Reqs :
        pc[r] \in {"done", "raised"} =>
            /\ Cardinality(Positions(r, "procedural")) = 1
            /\ \A i \in Positions(r, "procedural") :
                  /\ i > 1
                  /\ calls[r][i - 1] \in {"domain_resolved", "domain_failed"}
                  /\ \A j \in Positions(r, "llm_resolved") : i < j
            /\ procedural[r] # None
            /\ procedural[r].prompts = Prompts(r, domain[r]).val
            /\ procedural[r].plan = Plan(r, domain[r]).val
            /\ procedural[r].docs = Docs(r, domain[r]).val

(***************************************************************************)
(* C12: when the product wait gave no result (the task raised or the wait  *)
(* timed out), or the text it gave does not parse to a JSON object, or     *)
(* the object lacks one of the keys implementation_plan, tech_stack,       *)
(* prompts, docs, the plan, the prompts and the docs of the result are     *)
(* those of the generators, unchanged.                                     *)
(***************************************************************************)
PayloadUnusable(r) ==
    \/ raw[r].exc
    \/ raw[r].val.body.t # "dict"
    \/ raw[r].val.pre = "braces" \/ raw[r].val.post = "braces"
    \/ \E k \in {"implementation_plan", "tech_stack", "prompts", "docs"} :
          k \notin DOMAIN raw[r].val.body.v

C12_UnusablePayloadKeepsBaseline ==
    \A r \in Reqs :
        pc[r] = "done" /\ PayloadUnusable(r) =>
            /\ result[r].t = "return"
            /\ result[r].val.implementation_plan = procedural[r].plan
            /\ result[r].val.prompts = procedural[r].prompts
            /\ result[r].val.docs = procedural[r].docs
            /\ result[r].val.implementation_plan.by = "template"
            /\ \A k \in DOMAIN result[r].val.prompts.v :
                  result[r].val.prompts.v[k].by = "template"

\* the payload has a plan of 10 steps and a longer requirements text, and
\* no docs key
C12_Witness ==
    \E r \in Reqs :
        /\ pc[r] = "done"
        /\ ~raw[r].exc
        /\ raw[r].val.body.t = "dict"
        /\ DOMAIN raw[r].val.body.v
             = {"implementation_plan", "tech_stack", "prompts"}
        /\ raw[r].val.body.v["implementation_plan"] = LlmPlan(10)

(***************************************************************************)
(* C13: the prompts of the result are the prompts of the generators        *)
(* except possibly under the key product_requirements.  That entry holds   *)
(* the value of the product payload only if its length is strictly         *)
(* greater than the length of the generators' entry (0 when the            *)
(* generators made no such entry); a value of equal or smaller length      *)
(* leaves the prompts of the generators as they are.                       *)
(***************************************************************************)
\* the product_requirements entry of the prompts `prompts`, "" if absent
RequirementsOf(prompts) ==
    IF "product_requirements" \in DOMAIN prompts.v
    THEN prompts.v["product_requirements"] ELSE JStr("")

\* the payload of request r has a prompts object with a product_requirements
\* entry
PayloadHasRequirements(r) ==
    /\ ProductPayload(r) # None
    /\ IsDict(ProductPayload(r))
    /\ "prompts" \in DOMAIN ProductPayload(r).v
    /\ IsDict(ProductPayload(r).v["prompts"])
    /\ "product_requirements" \in DOMAIN ProductPayload(r).v["prompts"].v

PayloadRequirements(r) ==
    ProductPayload(r).v["prompts"].v["product_requirements"]

C13_PromptMerge ==
    \A r \in Reqs :
        pc[r] = "done" =>
            LET final == result[r].val.prompts
                base == procedural[r].prompts
            IN  /\ DOMAIN final.v \ {"product_requirements"}
                     = DOMAIN base.v \ {"product_requirements"}
                /\ \A k \in DOMAIN base.v \ {"product_requirements"} :
                      final.v[k] = base.v[k]
                /\ final # base =>
                      /\ PayloadHasRequirements(r)
                      /\ RequirementsOf(final) = PayloadRequirements(r)
                      /\ LenOf(PayloadRequirements(r))
                           > LenOf(RequirementsOf(base))
                /\ PayloadHasRequirements(r)
                     /\ PayloadRequirements(r).t \in {"str", "list", "dict"}
                     /\ LenOf(PayloadRequirements(r))
                          <= LenOf(RequirementsOf(base))
                     => final = base

\* the text of the payload is exactly as long as the generators' text, and
\* the generators' text is kept
C13_Witness ==
    \E r \in Reqs :
        /\ pc[r] = "done"
        /\ ProductBranchSucceeded(r)
        /\ PayloadHasRequirements(r)
        /\ "product_requirements" \in DOMAIN procedural[r].prompts.v
        /\ LenOf(PayloadRequirements(r))
             = LenOf(procedural[r].prompts.v["product_requirements"])
        /\ result[r].val.prompts = procedural[r].prompts

(***************************************************************************)
(* C14: the implementation_plan of the result is the plan of the product   *)
(* payload only if that plan is a list of at least 5 steps in mvp mode, of *)
(* at least 10 steps in production mode; for a shorter list, or a value    *)
(* that is no list, it is the plan of the generators.                      *)
(***************************************************************************)
\* the implementation_plan of the payload of request r, None if there is none
PayloadPlan(r) ==
    IF ProductPayload(r) # None /\ IsDict(ProductPayload(r))
       /\ "implementation_plan" \in DOMAIN ProductPayload(r).v
    THEN ProductPayload(r).v["implementation_plan"]
    ELSE None

C14_PlanMerge ==
    \A r \in Reqs :
        pc[r] = "done" =>
            LET final == result[r].val.implementation_plan
                base == procedural[r].plan
                llm_plan == PayloadPlan(r)
                enough == IF mode[r] = "mvp" THEN 5 ELSE 10
            IN  /\ final # base =>
                      /\ final = llm_plan
                      /\ IsList(llm_plan)
                      /\ LenOf(llm_plan) >= enough
                /\ ~IsList(llm_plan) => final = base
                /\ IsList(llm_plan) /\ LenOf(llm_plan) < enough => final = base

\* a production call whose payload has a plan of nine steps: the plan of the
\* generators is returned
C14_Witness ==
    \E r \in Reqs :
        /\ pc[r] = "done" /\ mode[r] = "production"
        /\ ProductBranchSucceeded(r)
        /\ IsList(PayloadPlan(r)) /\ LenOf(PayloadPlan(r)) = 9
        /\ result[r].val.implementation_plan = procedural[r].plan

(***************************************************************************)
(* C15: the docs and the tech_stack of a result do not depend on the       *)
(* payload of the product branch.  The docs are the doc pack the           *)
(* generators build from the refined text, the flags, the stack, the mode, *)
(* the tool and the domain analysis, the tech_stack is the stack resolved  *)
(* before the two tasks were submitted; both are functions of values the   *)
(* payload has no part in, so two calls that differ in the payload alone   *)
(* return the same docs and the same tech_stack.                           *)
(***************************************************************************)
C15_DocsAndStackIgnorePayload ==
    \A r \in Reqs :
        pc[r] = "done" =>
            /\ result[r].val.docs = Docs(r, domain[r]).val
            /\ result[r].val.tech_stack = stack[r]

\* a merged result whose payload has docs and a stack of its own
C15_Witness ==
    \E r \in Reqs :
        /\ pc[r] = "done"
        /\ ProductBranchSucceeded(r)
        /\ result[r].val.prompts # procedural[r].prompts
        /\ ProductPayload(r).v["docs"] # result[r].val.docs
        /\ ProductPayload(r).v["tech_stack"] # result[r].val.tech_stack

(***************************************************************************)
(* C16: estimated_complexity is a function of the number of detected flags *)
(* alone: "MVP" for 0, 1 or 2 flags, "Medium" for 3, 4 or 5, "Complex" for *)
(* 6 or more, in the merged result and in the fallback result alike.       *)
(***************************************************************************)
C16_ComplexityByFlagCount ==
    \A r \in Reqs :
        pc[r] = "done" =>
            LET n == Cardinality(flags[r])
                label == result[r].val.estimated_complexity
            IN  /\ Len(result[r].val.detected_features) = n
                /\ n \in {0, 1, 2} => label = "MVP"
                /\ n \in {3, 4, 5} => label = "Medium"
                /\ n >= 6 => label = "Complex"

\* a fallback result with exactly five flags
C16_Witness ==
    \E r \in Reqs :
        /\ pc[r] = "done"
        /\ ~ProductBranchSucceeded(r)
        /\ Cardinality(flags[r]) = 5
        /\ result[r].val.estimated_complexity = "Medium"

(***************************************************************************)
(* C17: in every result that is returned, prompt_count is the number of    *)
(* entries of the prompts of that same result, merged or not.              *)
(***************************************************************************)
C17_PromptCountIsSize ==
    \A r \in Reqs :
        pc[r] = "done" =>
            /\ result[r].t = "return"
            /\ result[r].val.prompt_count
                 = Cardinality(DOMAIN result[r].val.prompts.v)

\* a merged result with one entry more than the generators made
C17_Witness ==
    \E r \in Reqs :
        /\ pc[r] = "done"
        /\ ProductBranchSucceeded(r)
        /\ Cardinality(DOMAIN result[r].val.prompts.v)
             = Cardinality(DOMAIN procedural[r].prompts.v) + 1
        /\ result[r].val.prompt_count
             = Cardinality(DOMAIN procedural[r].prompts.v) + 1

(***************************************************************************)
(* C18: two calls of generate_package with the same request return the     *)
(* same detected_features and the same tech_stack, and their generators    *)
(* build the same plan, prompts and docs, whatever the refine call, the    *)
(* domain call and the product call return in either of them.              *)
(* The code does not do this: the flags are detected in the idea and in    *)
(* the text the refine call returned (line 215), the stack is chosen from  *)
(* those flags, and the generators embed the refined text and the domain.  *)
(***************************************************************************)
C18_SameRequestSameBaseline ==
    \A p, q \in Reqs :
        pc[p] = "done" /\ pc[q] = "done" /\ req[p] = req[q] =>
            /\ result[p].val.detected_features = result[q].val.detected_features
            /\ result[p].val.tech_stack = result[q].val.tech_stack
            /\ procedural[p].plan = procedural[q].plan
            /\ procedural[p].prompts = procedural[q].prompts
            /\ procedural[p].docs = procedural[q].docs

(***************************************************************************)
(* C19: a result exists only once both branches are resolved.  In every    *)
(* state with a result the wait for the domain task is over, with the      *)
(* value of the task or with None (the task failed or the wait timed out); *)
(* after it the wait for the product task is over, with the text of the    *)
(* task or with an exception (raised by the task, or the timeout); and the *)
(* result is the merge of exactly that pair.  This is so whichever task    *)
(* was done first.                                                         *)
(***************************************************************************)
C19_ResultAfterBothResolved ==
    \A r \in Reqs :
        result[r].t = "return" =>
            /\ pc[r] = "done"
            /\ \E i \in Positions(r, "domain_resolved")
                          \cup Positions(r, "domain_failed") :
                  \E j \in Positions(r, "llm_resolved") : i < j
            /\ Logged(r, "domain_resolved") =>
                  /\ domain_future[r].state = "done"
                  /\ domain[r] = domain_future[r].outcome.val
            /\ Logged(r, "domain_failed") => domain[r] = None
            /\ raw[r] # None
            /\ ~raw[r].exc =>
                  /\ llm_future[r].state = "done"
                  /\ raw[r] = llm_future[r].outcome
            /\ procedural[r].prompts = Prompts(r, domain[r]).val
            /\ result[r].val = MergeOrFallback(raw[r], refined[r], stack[r],
                                               flags[r], mode[r], procedural[r])

\* the product task was done while the domain task was not: the wait for
\* the domain task timed out, the product payload was merged
C19_Witness ==
    \E r \in Reqs :
        /\ result[r].t = "return"
        /\ domain_future[r].state # "done"
        /\ Logged(r, "domain_failed")
        /\ llm_future[r].state = "done"
        /\ ProductBranchSucceeded(r)
        /\ result[r].val.prompts # procedural[r].prompts

(***************************************************************************)
(* C20: each wait ends within its timeout counted from the moment the two  *)
(* tasks were submitted: a call is not waiting for the domain task more    *)
(* than 45 seconds after that moment, and not waiting for the product task *)
(* more than 60 seconds after it.                                          *)
(* The code does not do this for the product task: the 60 seconds of       *)
(* llm_future.result (line 259) start when that wait starts, after the     *)
(* wait for the domain task, which may itself have lasted 45 seconds.      *)
(***************************************************************************)
C20_TimeoutsFromDispatch ==
    \A r \in Reqs :
        /\ pc[r] = "wait_domain" => since_dispatch[r] <= domain_timeout
        /\ pc[r] = "wait_llm" => since_dispatch[r] <= llm_timeout

(***************************************************************************)
(* C21: detect_features is a function of its text and returns a subset of  *)
(* the 15 keys of FEATURE_KEYWORDS; the detected_features of every result  *)
(* lists the flags of the call in ascending alphabetical order, each flag  *)
(* once.                                                                   *)
(***************************************************************************)
\* the place of each flag in the alphabetical order of the 15 keys
AlphabeticalRank ==
    [ admin_panel |-> 1, ai |-> 2, analytics |-> 3, auth_advanced |-> 4,
      file_upload |-> 5, geolocation |-> 6, i18n |-> 7, mobile |-> 8,
      multi_tenancy |-> 9, notifications |-> 10, payments |-> 11,
      realtime |-> 12, scheduling |-> 13, search |-> 14, social |-> 15 ]

C21_FlagsInVocabularySorted ==
    /\ Cardinality(FlagVocabulary) = 15
    /\ DOMAIN AlphabeticalRank = FlagVocabulary
    /\ \A text \in KnownTexts : FlagsOfText[text] \subseteq FlagVocabulary
    /\ \A r \in Reqs :
          /\ FlagsDetected(r) =>
                /\ flags[r] \subseteq FlagVocabulary
                /\ flags[r] = FlagsOfText[idea[r]] \cup FlagsOfText[refined[r]]
          /\ pc[r] = "done" =>
                LET listed == result[r].val.detected_features
                IN  /\ { listed[i] : i \in 1..Len(listed) } = flags[r]
                    /\ \A i, j \in 1..Len(listed) :
                          i < j => AlphabeticalRank[listed[i]]
                                     < AlphabeticalRank[listed[j]]

\* a result that lists eight flags
C21_Witness ==
    \E r \in Reqs :
        /\ pc[r] = "done"
        /\ Len(result[r].val.detected_features) = 8
        /\ result[r].val.detected_features[1] = "admin_panel"

(***************************************************************************)
(* C22: choose_stack is a pure function of the flag set.  Whenever the     *)
(* stack of a call was chosen (its tool profile fixes none), it is         *)
(* choose_stack of the flags of that call and of nothing else, so two      *)
(* calls with equal flag sets have equal stacks however they interleave;   *)
(* all 13 slots of it hold a non-empty text; and the step that chooses it  *)
(* leaves the flags of every call, the API key, the provider singleton and *)
(* the module-level tool profiles as they were.                            *)
(***************************************************************************)
StackSlots ==
    { "frontend", "frontend_ui", "backend", "database", "cache", "infra",
      "auth", "ai", "search", "file_storage", "email", "monitoring",
      "testing" }

\* the stack of call r has been chosen by choose_stack
StackChosen(r) ==
    /\ StackResolved(r)
    /\ req[r].tool \notin {JStr("lovable"), JStr("replit"), JStr("base44")}

C22_StackOfFlagsAlone ==
    /\ \A r \in Reqs :
          StackChosen(r) =>
              /\ stack[r] = choose_stack(flags[r])
              /\ DOMAIN stack[r] = StackSlots
              /\ \A slot \in StackSlots : stack[r][slot] # ""
    /\ \A p, q \in Reqs :
          StackChosen(p) /\ StackChosen(q) /\ flags[p] = flags[q] =>
              stack[p] = stack[q]

C22_ChoosingChangesNothing ==
    \A r \in Reqs :
        pc[r] = "stack" /\ pc'[r] = "dispatch" =>
            /\ flags' = flags
            /\ shared' = shared

C22_ChooseStackIsPure ==
    []C22_StackOfFlagsAlone /\ [][C22_ChoosingChangesNothing]_vars

\* two calls in progress at once whose stacks were chosen from the same,
\* non-empty flag set
C22_Witness ==
    \E p, q \in Reqs :
        /\ p # q
        /\ StackChosen(p) /\ StackChosen(q)
        /\ pc[p] # "raised" /\ pc[q] # "raised"
        /\ flags[p] = flags[q]
        /\ flags[p] # {}
        /\ stack[p] = stack[q]

(***************************************************************************)
(* C23: in a stack chosen by choose_stack the cache slot is "None" exactly *)
(* when the flags hold neither realtime nor scheduling and there are fewer *)
(* than 3 of them; for a request without a tool whose flags include        *)
(* realtime it is the Redis pub/sub choice.                                *)
(***************************************************************************)
C23_CacheSlot ==
    \A r \in Reqs :
        StackChosen(r) =>
            /\ stack[r].cache = "None" <=>
                  /\ "realtime" \notin flags[r]
                  /\ "scheduling" \notin flags[r]
                  /\ Cardinality(flags[r]) < 3
            /\ req[r].tool = None /\ "realtime" \in flags[r] =>
                  stack[r].cache = "Redis 7 (pub/sub + caching)"

\* the scenario of the specification: the result of a production request
\* without a tool for "Real-Time chat for teams"
C23_Witness ==
    \E r \in Reqs :
        /\ pc[r] = "done"
        /\ req[r] = [idea |-> "Real-Time chat for teams",
                     mode |-> "production", tool |-> None]
        /\ "realtime" \in flags[r]
        /\ result[r].val.tech_stack.cache = "Redis 7 (pub/sub + caching)"

(***************************************************************************)
(* C24: both tasks are given the refined idea: the user prompt of the      *)
(* product task carries the text `refined`, as the argument of the domain  *)
(* task does, also when the refine call returned an accepted text that     *)
(* differs from the idea of the request.                                   *)
(* The code does not do this: build_user_prompt and _mvp_user_prompt       *)
(* (system_prompts.py) write req.idea into the prompt, and generate_package*)
(* passes them req, not refined (line 233).                                *)
(***************************************************************************)
C24_ProductPromptCarriesRefined ==
    \A r \in Reqs :
        Logged(r, "submit_llm") =>
            /\ domain_future[r].args.idea = refined[r]
            /\ llm_future[r].args.idea = refined[r]

(***************************************************************************)
(* C25: a wait that times out gives its branch no result and cancels       *)
(* nothing, and what the task returns afterwards is used by no call.       *)
(* After a timeout of the domain wait the domain of the call is None, the  *)
(* generators run without a domain and the result carries their output;    *)
(* after a timeout of the product wait the result is the fallback.  The    *)
(* step that times out leaves both futures as they are, so the task goes   *)
(* on in its worker.  The result of every call is made of the locals of    *)
(* that call alone, whatever the tasks of any call have returned since.    *)
(***************************************************************************)
\* the wait of call r for its domain task / product task timed out
DomainTimedOut(r) == Logged(r, "domain_failed")
ProductTimedOut(r) == raw[r] = Raised("TimeoutError")

C25_TimeoutGivesNoResult ==
    \A r \in Reqs :
        /\ DomainTimedOut(r) =>
              /\ domain[r] = None
              /\ domain_future[r].state \in {"queued", "running", "done"}
              /\ Built(r) => procedural[r].prompts = Prompts(r, None).val
              /\ pc[r] = "done" => result[r].val.docs = Docs(r, None).val
        /\ ProductTimedOut(r) =>
              /\ llm_future[r].state \in {"queued", "running", "done"}
              /\ result[r].t = "return"
              /\ result[r].val
                   = Fallback(refined[r], stack[r], flags[r], procedural[r])
        /\ pc[r] = "done" =>
              result[r].val = MergeOrFallback(raw[r], refined[r], stack[r],
                                              flags[r], mode[r], procedural[r])

C25_TimeoutCancelsNothing ==
    \A r \in Reqs :
        pc[r] \in {"wait_domain", "wait_llm"} /\ pc'[r] # pc[r] =>
            /\ domain_future' = domain_future
            /\ llm_future' = llm_future

C25_AbandonedCallIsIgnored ==
    []C25_TimeoutGivesNoResult /\ [][C25_TimeoutCancelsNothing]_vars

\* both waits of a call timed out, both tasks returned a usable value
\* afterwards, and the result is the fallback built without a domain
C25_Witness ==
    \E r \in Reqs :
        /\ pc[r] = "done"
        /\ DomainTimedOut(r) /\ ProductTimedOut(r)
        /\ domain_future[r].state = "done"
        /\ domain_future[r].outcome.val # None
        /\ llm_future[r].state = "done"
        /\ ~llm_future[r].outcome.exc
        /\ result[r].val.prompts = Prompts(r, None).val

(***************************************************************************)
(* Progress.  The thread of a call goes on with its next statement:        *)
(* validation, the provider, the refine call (which returns or raises),    *)
(* the flags, the profile, the stack, the two submits, the two waits (each *)
(* has a timeout) and the generators.  Nothing makes a worker take a       *)
(* queued task or the LLM call of a task end: the pool may be held by the  *)
(* tasks of calls that are over.                                           *)
(***************************************************************************)
PipelineStep(r) ==
    \/ Validate(r)
    \/ GetProvider(r)
    \/ RefineIdea(r, RefineOutcomesConc)
    \/ DetectFlags(r)
    \/ LoadToolProfile(r)
    \/ ResolveStack(r)
    \/ Dispatch(r)
    \/ WaitDomain(r)
    \/ BuildProcedural(r)
    \/ WaitLlmAndMerge(r)

\* the calls overlap two at a time; the tasks of a call that is over stay
\* with the executor
NextLive ==
    \E r \in Reqs :
        \/ RoomForOne /\ Receive(r, RequestInputsRepeat)
        \/ PipelineStep(r)
        \/ DomainTaskStart(r)
        \/ DomainTaskFinish(r, DomainOutcomesConc)
        \/ LlmTaskStart(r)
        \/ LlmTaskFinish(r, ProductOutcomesConc(ProceduralLen(r)))
        \/ Respond(r)

\* line 215 as DetectFlags has it, with detect_features read from its table
DetectFlagsTabled(r) ==
    /\ pc[r] = "flags"
    /\ flags' = [flags EXCEPT ![r] =
                   FlagsOfText[idea[r]] \cup FlagsOfText[refined[r]]]
    /\ pc' = [pc EXCEPT ![r] = "tool_profile"]
    /\ UNCHANGED << shared, futures, req, idea, mode, refined, late, result,
                    calls, replies, clock >>
    /\ UNCHANGED quota

\* as long as some call has a statement to run, one of them runs its own
PipelineProgress ==
    WF_vars(\E r \in Reqs :
               \/ Validate(r)
               \/ GetProvider(r)
               \/ RefineIdea(r, RefineOutcomesConc)
               \/ DetectFlagsTabled(r)
               \/ LoadToolProfile(r)
               \/ ResolveStack(r)
               \/ Dispatch(r)
               \/ WaitDomain(r)
               \/ BuildProcedural(r)
               \/ WaitLlmAndMerge(r))

SpecLive == Init /\ [][NextLive]_vars /\ PipelineProgress

(***************************************************************************)
(* C26: every request that passed validation eventually has a result,      *)
(* whether or not its two tasks are ever started or ever end.              *)
(* The code does not do this: the waits do expire and a call that reaches  *)
(* them returns the procedural result, but get_provider() (line 205) is    *)
(* called before them outside any try, and a request that passed           *)
(* validation ends with its ValueError instead of a result.                *)
(***************************************************************************)
C26_AcceptedEventuallyReturns ==
    \A r \in Reqs : (pc[r] = "get_provider") ~> (pc[r] = "done")

(***************************************************************************)
(* C27: the merge adds no prompt and removes none: the keys of the prompts *)
(* of a result are the keys of the prompts of the generators, in every     *)
(* mode and for every tool, and prompt_count is their number.              *)
(* The code does not do this: the mvp pack and the packs of the tools have *)
(* no product_requirements entry, the merge compares the text of the       *)
(* payload with "" and writes it under a new key (lines 268-272).          *)
(***************************************************************************)
C27_MergeKeepsPromptNames ==
    \A r \in Reqs :
        pc[r] = "done" =>
            /\ DOMAIN result[r].val.prompts.v = DOMAIN procedural[r].prompts.v
            /\ result[r].val.prompt_count
                 = Cardinality(DOMAIN procedural[r].prompts.v)

(***************************************************************************)
(* C28: the merge is all or nothing.  When the prompt rule raises on a     *)
(* valid payload (its product_requirements has no length), the plan, the   *)
(* prompts and the docs of the result are those of the generators, even if *)
(* the plan of the payload is long enough.  When it does not raise, the    *)
(* two rules are decided each on its own: the plan of the payload is taken *)
(* exactly when it is a list of enough steps, whatever became of the       *)
(* prompts, and the requirements text of the payload is taken exactly when *)
(* it is longer than that of the generators, whatever became of the plan.  *)
(***************************************************************************)
\* the payload of call r is valid
PayloadValid(r) ==
    /\ ProductPayload(r) # None
    /\ IsDict(ProductPayload(r))
    /\ {"implementation_plan", "tech_stack", "prompts", "docs"}
         \subseteq DOMAIN ProductPayload(r).v

\* the prompt rule raises on the payload of call r
PromptRuleRaises(r) ==
    /\ PayloadValid(r)
    /\ PayloadHasRequirements(r)
    /\ PayloadRequirements(r).t \notin {"str", "list", "dict"}

\* the plan of the payload of call r has enough steps
PlanLongEnough(r) ==
    /\ IsList(PayloadPlan(r))
    /\ LenOf(PayloadPlan(r)) >= (IF mode[r] = "mvp" THEN 5 ELSE 10)

C28_MergeAllOrNothing ==
    \A r \in Reqs :
        pc[r] = "done" =>
            LET final == result[r].val
                base == procedural[r]
            IN  /\ PromptRuleRaises(r) =>
                      /\ final.implementation_plan = base.plan
                      /\ final.prompts = base.prompts
                      /\ final.docs = base.docs
                /\ PayloadValid(r) /\ ~PromptRuleRaises(r) =>
                      /\ final.implementation_plan =
                           IF PlanLongEnough(r) THEN PayloadPlan(r)
                           ELSE base.plan
                      /\ final.prompts # base.prompts <=>
                           /\ PayloadHasRequirements(r)
                           /\ LenOf(PayloadRequirements(r))
                                > LenOf(RequirementsOf(base.prompts))
                /\ final.implementation_plan # base.plan =>
                      \/ final.prompts = base.prompts
                      \/ /\ PayloadHasRequirements(r)
                         /\ final.prompts
                              = SetKey(base.prompts, "product_requirements",
                                       PayloadRequirements(r))

\* a valid payload with a plan of 10 steps and a product_requirements of
\* None: the result keeps the plan of the generators
C28_Witness ==
    \E r \in Reqs :
        /\ pc[r] = "done"
        /\ PromptRuleRaises(r)
        /\ PayloadRequirements(r) = None
        /\ PlanLongEnough(r)
        /\ result[r].val.implementation_plan = procedural[r].plan

(***************************************************************************)
(* The /plan route (routes.py lines 11-25).  The handler asks              *)
(* check_usage_allowed, calls generate_package and then log_usage; the     *)
(* count it compares and the row it inserts are two queries to the         *)
(* usage_logs table, and nothing ties them together.  plan never awaits,   *)
(* so one server process runs one /plan request at a time; requests of one *)
(* user overlap when several processes of the app serve them, and these    *)
(* share the table.  Each query is one step.                               *)
(***************************************************************************)
\* the limits a tier may have: none, no generation at all, one, two
TierLimits == { -1, 0, 1, 2 }

\* get_monthly_usage: the generation rows of the user this month
get_monthly_usage == Cardinality(usage_logs)

\* check_usage_allowed with get_tier_limit giving limit
check_usage_allowed(limit) ==
    IF limit = -1 THEN TRUE ELSE get_monthly_usage < limit

\* lines 13-17: over the limit, the request is answered 429
PlanCheckUsage(r) ==
    /\ plan_pc[r] = "idle"
    /\ plan_pc' = [plan_pc EXCEPT ![r] =
                     IF check_usage_allowed(tier_limit)
                     THEN "generate" ELSE "429"]
    /\ UNCHANGED << shared, pc, futures, early, late, result, calls, replies,
                    clock, usage_logs, tier_limit >>

\* what generate_package does to its caller: it returns the package, raises
\* the ValueError of its validation, or raises something else
GenerateOutcomes == { "return", "ValueError", "Exception" }

\* lines 19-22: a ValueError is answered 400, another exception 500
PlanGenerate(r) ==
    /\ plan_pc[r] = "generate"
    /\ \E outcome \in GenerateOutcomes :
          plan_pc' = [plan_pc EXCEPT ![r] =
                        CASE outcome = "return" -> "log"
                          [] outcome = "ValueError" -> "400"
                          [] outcome = "Exception" -> "500"]
    /\ UNCHANGED << shared, pc, futures, early, late, result, calls, replies,
                    clock, usage_logs, tier_limit >>

\* lines 24-25 and log_usage: the row is inserted, or the insert fails and
\* log_usage swallows the exception; the package is returned either way
PlanLogUsage(r) ==
    /\ plan_pc[r] = "log"
    /\ \E inserted \in BOOLEAN :
          usage_logs' = IF inserted THEN usage_logs \cup {r} ELSE usage_logs
    /\ plan_pc' = [plan_pc EXCEPT ![r] = "200"]
    /\ UNCHANGED << shared, pc, futures, early, late, result, calls, replies,
                    clock, tier_limit >>

InitPlan ==
    /\ InitPipeline
    /\ NoUsage
    /\ tier_limit \in TierLimits

NextPlan ==
    \E r \in Reqs :
        \/ PlanCheckUsage(r)
        \/ PlanGenerate(r)
        \/ PlanLogUsage(r)

SpecPlan == InitPlan /\ [][NextPlan]_vars

(***************************************************************************)
(* C29: for a tier with a monthly limit L >= 0 the generation rows logged  *)
(* for the user in the month never number more than L, however the /plan   *)
(* requests of the user overlap; a request answered 400 has logged no row; *)
(* with the limit -1 no request is answered 429.                           *)
(* The code does not do this: the count is read at line 13 and the row is  *)
(* written at line 25, after generate_package; two requests that both read *)
(* a count of L - 1 both pass and both insert, and the month has L + 1     *)
(* rows.  The other two parts hold.                                        *)
(***************************************************************************)
C29_QuotaNeverExceeded ==
    /\ tier_limit >= 0 => Cardinality(usage_logs) <= tier_limit
    /\ \A r \in Reqs : plan_pc[r] = "400" => r \notin usage_logs
    /\ tier_limit = -1 => \A r \in Reqs : plan_pc[r] # "429"

(***************************************************************************)
(* Keywords and words.  SpecDetect makes the calls one after the other     *)
(* with request texts in which a keyword stands inside another word, is    *)
(* the first word or is the last word; the refine call raises, so that the *)
(* flags are those of the request text.                                    *)
(***************************************************************************)
DetectTexts ==
    { "forgotten recipes",      \* "org" inside "forgotten"
      "food delivery tips",     \* "live" inside "delivery"
      "maintain recipes",       \* "ai" inside "maintain"
      "HTML recipes book",      \* "ml" inside "HTML"
      "Org recipes book",       \* "org" is the first word
      "recipes from my ORG",    \* "org" is the last word
      "AI recipes book",        \* "ai" is the first word
      "recipes made by AI" }    \* "ai" is the last word

RequestInputsDetect ==
    { q \in [idea : DetectTexts, mode : {"mvp"}, tool : {None}] : TRUE }

NextDetect ==
    \E r \in Reqs :
        \/ Quiet /\ Receive(r, RequestInputsDetect)
        \/ Validate(r)
        \/ GetProvider(r)
        \/ RefineIdea(r, RefineOutcomesConc)
        \/ DetectFlags(r)
        \/ LoadToolProfile(r)
        \/ ResolveStack(r)
        \/ Dispatch(r)
        \/ DomainTaskStart(r)
        \/ DomainTaskFinish(r, DomainOutcomesConc)
        \/ LlmTaskStart(r)
        \/ LlmTaskFinish(r, ProductOutcomesConc(ProceduralLen(r)))
        \/ WaitDomain(r)
        \/ BuildProcedural(r)
        \/ WaitLlmAndMerge(r)
        \/ Respond(r)

SpecDetect == Init /\ [][NextDetect]_vars

\* the characters words are made of, in lower case
WordChars ==
    { "a", "b", "c", "d", "e", "f", "g", "h", "i", "j", "k", "l", "m", "n",
      "o", "p", "q", "r", "s", "t", "u", "v", "w", "x", "y", "z",
      "0", "1", "2", "3", "4", "5", "6", "7", "8", "9" }

\* word (in lower case) stands in text with no word character next to it
OccursAsWord(word, text) ==
    LET padded == " " \o Lower(text) \o " "
    IN  \E i \in 2..(Len(padded) - Len(word)) :
            /\ SubSeq(padded, i, i + Len(word) - 1) = word
            /\ SubSeq(padded, i - 1, i - 1) \notin WordChars
            /\ SubSeq(padded, i + Len(word), i + Len(word)) \notin WordChars

\* word (in lower case) is the first or the last word of text
FirstOrLastWord(word, text) ==
    LET lower == Lower(text)
        n == Len(word)
    IN  /\ Len(lower) > n
        /\ \/ SubSeq(lower, 1, n + 1) = word \o " "
           \/ SubSeq(lower, Len(lower) - n, Len(lower)) = " " \o word

(***************************************************************************)
(* C30: a keyword raises its flag only where it stands as a word or phrase *)
(* of its own, in any case of letters: every flag of a call has a keyword  *)
(* that stands so in the text, and a keyword that is the first or the last *)
(* word of the text raises its flag.                                       *)
(* The code does not do the first: only " ai " and " ml " carry spaces in  *)
(* the table; every other keyword is looked up with `kw in lower` (line    *)
(* 148) and is found inside longer words, "org" in "forgotten" and "live"  *)
(* in "delivery".  The second holds.                                       *)
(***************************************************************************)
C30_KeywordsMatchAsWords ==
    \A r \in Reqs :
        FlagsDetected(r) =>
            /\ \A flag \in flags[r] :
                   \E kw \in FEATURE_KEYWORDS[flag] :
                       \/ OccursAsWord(Strip(kw), idea[r])
                       \/ OccursAsWord(Strip(kw), refined[r])
            /\ \A flag \in FlagVocabulary :
                   \A kw \in FEATURE_KEYWORDS[flag] :
                       FirstOrLastWord(Strip(kw), idea[r]) => flag \in flags[r]

=============================================================================
